---- MODULE Spec2Model ----
\* A model of the replicated key-value store simulator (snapshot isolation with
\* first-committer-wins and a serialization-graph check) of src/src/*.ts and
\* src/unnamed/part_000 (ReplicationRouter).  One action per directive that
\* Driver.executeCommand dispatches; each action models the whole handler.
EXTENDS Integers, Sequences, FiniteSets, TLC

\* ---------------------------------------------------------------- bounds
\* The program has 10 sites and 20 variables (SiteManager.NUM_SITES,
\* SiteManager.NUM_VARIABLES); the model keeps the placement arithmetic and
\* scales both numbers down.
NUM_SITES == 2
NUM_VARIABLES == 4
\* The longest transcripts (number of directives) the specifications run.
MaxSteps == 6
MaxTxnSteps == 8
MaxWriteSteps == 8
MaxScript == 4
MaxRecSteps == 8
MaxOwnSteps == 6
MaxAdmitSteps == 8
MaxDriverSteps == 5
MaxResetSteps == 4
MaxDumpSteps == 6
MaxPrecSteps == 7
MaxCycleSteps == 14
MaxVersionSteps == 3
MaxStaleSteps == 11
MaxTimestamp == 3

\* The transaction names and written values the directives are drawn from.
TxIds == {"T1", "T2"}
Values == {101}

SiteIds == 1..NUM_SITES
VarIds == 1..NUM_VARIABLES

VARIABLES
    transactions,   \* TransactionManager.transactions : id -> Transaction
    currentTime,    \* TransactionManager.currentTime
    store,          \* VersionStore.store : site -> variable -> Version[]
    sites,          \* SiteManager.sites : site -> Site
    lastWriter,     \* ConcurrencyControl.lastWriter : variable -> {transactionId, commitTime}
    graph,          \* ConcurrencyControl.graph : id -> set of successor ids
    writeHistory,   \* ConcurrencyControl.writeHistory : id -> (variable -> commitTime)
    readHistory,    \* ConcurrencyControl.readHistory : id -> set of variables
    output,         \* the lines the last directive printed (console.log), in
                    \* order, or the Error it threw out of Driver.run
    steps,          \* the number of directives Driver.run has executed
    history         \* the directives executed so far (kept by SpecScript only)

vars == <<transactions, currentTime, store, sites, lastWriter, graph,
          writeHistory, readHistory, output, steps, history>>

\* ------------------------------------------------------- maps and options
\* A JavaScript Map is a function on its key set; null/undefined is None.
None == <<>>
Some(x) == <<x>>
EmptyMap == [k \in {} |-> {}]
MapSet(m, k, v) == [x \in (DOMAIN m) \cup {k} |-> IF x = k THEN v ELSE m[x]]
MapDelete(m, k) == [x \in (DOMAIN m) \ {k} |-> m[x]]

\* A printed line.  Unused fields are 0 / "".
Line(kind, tx, variable, value, reason, site, other) ==
    [kind |-> kind, tx |-> tx, variable |-> variable, value |-> value,
     reason |-> reason, site |-> site, other |-> other]

\* An Error thrown by a directive and caught nowhere in Driver.run.
ErrorLine(message, site, variable) ==
    Line("Error", "", variable, 0, message, site, "")

\* --------------------------------------------------------------- placement
isReplicated(variableId) == variableId % 2 = 0

\* The home site computed as 1 + (i mod N) instead of 1 + ((i - 1) mod N).
getSiteForVariable_Shifted(variableId) == 1 + (variableId % NUM_SITES)

getSiteForVariable(variableId) == 1 + ((variableId - 1) % NUM_SITES)

\* The variables SiteManager.initializeSites gives to a site.
SiteVariables(siteId) ==
    {i \in VarIds : isReplicated(i) \/ getSiteForVariable(i) = siteId}

ReplicatedVars == {i \in VarIds : isReplicated(i)}

\* ------------------------------------------------------------ VersionStore
initializeSite(variableIds) ==
    [i \in variableIds |-> <<[timestamp |-> 0, value |-> i * 10]>>]

hasVariable(st, siteId, variableId) ==
    siteId \in DOMAIN st /\ variableId \in DOMAIN st[siteId]

\* getVersion ignoring the timestamp: the last version in the list.
getVersion_Latest(st, siteId, variableId, timestamp) ==
    IF ~hasVariable(st, siteId, variableId) \/ Len(st[siteId][variableId]) = 0
    THEN None
    ELSE Some(st[siteId][variableId][Len(st[siteId][variableId])])

\* The versions with timestamp <= the given one, and among them the one with
\* the greatest timestamp (the first such in list order, as the scan keeps the
\* earlier of two equal timestamps).
getVersion(st, siteId, variableId, timestamp) ==
    IF ~hasVariable(st, siteId, variableId) THEN None
    ELSE LET versions == st[siteId][variableId]
             ok == {k \in 1..Len(versions) : versions[k].timestamp <= timestamp}
         IN IF ok = {} THEN None
            ELSE LET best == CHOOSE k \in ok :
                                \A j \in ok :
                                    \/ versions[j].timestamp < versions[k].timestamp
                                    \/ (versions[j].timestamp = versions[k].timestamp /\ k <= j)
                 IN Some(versions[best])

getLatestVersion(st, siteId, variableId) ==
    IF ~hasVariable(st, siteId, variableId) \/ Len(st[siteId][variableId]) = 0
    THEN None
    ELSE Some(st[siteId][variableId][Len(st[siteId][variableId])])

\* addVersion putting the new version at the front of the list.
addVersion_Front(st, siteId, variableId, timestamp, value) ==
    [st EXCEPT ![siteId][variableId] =
        <<[timestamp |-> timestamp, value |-> value]>> \o @]

addVersion(st, siteId, variableId, timestamp, value) ==
    [st EXCEPT ![siteId][variableId] =
        Append(@, [timestamp |-> timestamp, value |-> value])]

\* ------------------------------------------------------------- SiteManager
\* An uptime interval {start, end?}: hasEnd is FALSE while end is undefined.
OpenInterval(start) == [start |-> start, hasEnd |-> FALSE, end |-> 0]

InitialSite(siteId) ==
    [id |-> siteId,
     state |-> "Up",
     uptimeIntervals |-> <<OpenInterval(0)>>,
     replicatedReadEnabled |-> [i \in ReplicatedVars |-> TRUE]]

isAvailable(ss, siteId) ==
    siteId \in DOMAIN ss /\ ss[siteId].state # "Failed"

getAvailableSites(ss) == {s \in DOMAIN ss : ss[s].state # "Failed"}

\* fail stamping the trailing interval again when the site is already Failed.
SiteManagerFail_Restamps(ss, siteId, now) ==
    LET ivs == ss[siteId].uptimeIntervals
        n == Len(ivs)
    IN [ss EXCEPT ![siteId].state = "Failed",
                  ![siteId].uptimeIntervals =
                      IF n > 0
                      THEN [ivs EXCEPT ![n] = [start |-> ivs[n].start,
                                               hasEnd |-> TRUE, end |-> now]]
                      ELSE ivs]

SiteManagerFail(ss, siteId, now) ==
    IF ss[siteId].state = "Failed" THEN ss
    ELSE LET ivs == ss[siteId].uptimeIntervals
             n == Len(ivs)
         IN [ss EXCEPT ![siteId].state = "Failed",
                       ![siteId].uptimeIntervals =
                           IF n > 0 /\ ~ivs[n].hasEnd
                           THEN [ivs EXCEPT ![n] = [start |-> ivs[n].start,
                                                    hasEnd |-> TRUE, end |-> now]]
                           ELSE ivs]

\* recover bringing a Failed site straight back to Up.
SiteManagerRecover_StraightUp(ss, st, siteId, now) ==
    IF ss[siteId].state # "Failed" THEN ss
    ELSE [ss EXCEPT ![siteId].state = "Up",
                    ![siteId].uptimeIntervals = Append(@, OpenInterval(now))]

\* recover without the test that the site is Failed.
SiteManagerRecover_Unguarded(ss, st, siteId, now) ==
    [ss EXCEPT ![siteId].state = "Recovering",
               ![siteId].uptimeIntervals = Append(@, OpenInterval(now)),
               ![siteId].replicatedReadEnabled =
                   [i \in DOMAIN @ |->
                       IF hasVariable(st, siteId, i) THEN FALSE ELSE @[i]]]

SiteManagerRecover(ss, st, siteId, now) ==
    IF ss[siteId].state # "Failed" THEN ss
    ELSE [ss EXCEPT ![siteId].state = "Recovering",
                    ![siteId].uptimeIntervals = Append(@, OpenInterval(now)),
                    ![siteId].replicatedReadEnabled =
                        [i \in DOMAIN @ |->
                            IF hasVariable(st, siteId, i) THEN FALSE ELSE @[i]]]

\* enableReplicatedRead moving the site to Up at the first re-enabled variable.
enableReplicatedRead_Eager(ss, st, siteId, variableId) ==
    IF siteId \notin DOMAIN ss THEN ss
    ELSE IF ss[siteId].state = "Recovering" /\ isReplicated(variableId)
    THEN [ss EXCEPT ![siteId].replicatedReadEnabled = MapSet(@, variableId, TRUE),
                    ![siteId].state = "Up"]
    ELSE ss

enableReplicatedRead(ss, st, siteId, variableId) ==
    IF siteId \notin DOMAIN ss THEN ss
    ELSE IF ss[siteId].state = "Recovering" /\ isReplicated(variableId)
    THEN LET flags == MapSet(ss[siteId].replicatedReadEnabled, variableId, TRUE)
             allEnabled == \A i \in ReplicatedVars :
                               hasVariable(st, siteId, i) => flags[i]
         IN [ss EXCEPT ![siteId].replicatedReadEnabled = flags,
                       ![siteId].state = IF allEnabled THEN "Up" ELSE @]
    ELSE ss

\* wasContinuouslyUp looking only at whether the site is known.
wasContinuouslyUp_Known(ss, siteId, startTime, endTime) == siteId \in DOMAIN ss

wasContinuouslyUp(ss, siteId, startTime, endTime) ==
    /\ siteId \in DOMAIN ss
    /\ \E k \in 1..Len(ss[siteId].uptimeIntervals) :
          LET interval == ss[siteId].uptimeIntervals[k]
          IN /\ interval.start <= startTime
             /\ (~interval.hasEnd \/ interval.end >= endTime)

\* canRead without the Recovering branch for replicated variables.
canRead_IgnoreRecovery(ss, st, siteId, variableId) ==
    /\ siteId \in DOMAIN ss
    /\ ss[siteId].state # "Failed"
    /\ hasVariable(st, siteId, variableId)

canRead(ss, st, siteId, variableId) ==
    IF siteId \notin DOMAIN ss \/ ss[siteId].state = "Failed" THEN FALSE
    ELSE IF ~hasVariable(st, siteId, variableId) THEN FALSE
    ELSE IF isReplicated(variableId) /\ ss[siteId].state = "Recovering"
    THEN IF variableId \in DOMAIN ss[siteId].replicatedReadEnabled
         THEN ss[siteId].replicatedReadEnabled[variableId] ELSE FALSE
    ELSE TRUE

\* ------------------------------------------------------- ReplicationRouter
canReadFromSite(ss, st, siteId, variableId) ==
    /\ isAvailable(ss, siteId)
    /\ hasVariable(st, siteId, variableId)
    /\ canRead(ss, st, siteId, variableId)

\* A site passes the three gates of selectReadSite for a read at beginTimestamp.
ReadEligible(ss, st, siteId, variableId, beginTimestamp) ==
    /\ canReadFromSite(ss, st, siteId, variableId)
    /\ getVersion(st, siteId, variableId, beginTimestamp) # None
    /\ wasContinuouslyUp(ss, siteId,
                         getVersion(st, siteId, variableId, beginTimestamp)[1].timestamp,
                         beginTimestamp)

ReadResult(st, siteId, variableId, beginTimestamp) ==
    Some([siteId |-> siteId,
          versionTimestamp |->
              getVersion(st, siteId, variableId, beginTimestamp)[1].timestamp])

\* selectReadSite scanning the available sites in descending id.
selectReadSite_Descending(ss, st, variableId, beginTimestamp) ==
    LET candidates == IF isReplicated(variableId) THEN getAvailableSites(ss)
                      ELSE {getSiteForVariable(variableId)}
        eligible == {s \in candidates :
                        ReadEligible(ss, st, s, variableId, beginTimestamp)}
    IN IF eligible = {} THEN None
       ELSE ReadResult(st, CHOOSE s \in eligible : \A r \in eligible : s >= r,
                       variableId, beginTimestamp)

\* getAvailableSites lists the sites in ascending id, so the first match is
\* the least eligible site.
selectReadSite(ss, st, variableId, beginTimestamp) ==
    IF isReplicated(variableId)
    THEN LET eligible == {s \in getAvailableSites(ss) :
                             ReadEligible(ss, st, s, variableId, beginTimestamp)}
         IN IF eligible = {} THEN None
            ELSE ReadResult(st, CHOOSE s \in eligible : \A r \in eligible : s <= r,
                            variableId, beginTimestamp)
    ELSE LET siteId == getSiteForVariable(variableId)
         IN IF ReadEligible(ss, st, siteId, variableId, beginTimestamp)
            THEN ReadResult(st, siteId, variableId, beginTimestamp)
            ELSE None

\* The target sites of a write issued now (an ascending array; kept as a set).
selectWriteSites(ss, st, variableId) ==
    IF isReplicated(variableId)
    THEN {s \in getAvailableSites(ss) : hasVariable(st, s, variableId)}
    ELSE IF isAvailable(ss, getSiteForVariable(variableId))
         THEN {getSiteForVariable(variableId)} ELSE {}

\* ------------------------------------------------------ ConcurrencyControl
registerTransaction(g, transactionId) ==
    IF transactionId \in DOMAIN g THEN g ELSE MapSet(g, transactionId, {})

addEdge(g, fromId, toId) ==
    LET g2 == registerTransaction(registerTransaction(g, fromId), toId)
    IN [g2 EXCEPT ![fromId] = @ \cup {toId}]

\* The transactions whose write history holds variableId at versionTimestamp.
WritersOf(wh, variableId, versionTimestamp) ==
    {w \in DOMAIN wh : variableId \in DOMAIN wh[w]
                       /\ wh[w][variableId] = versionTimestamp}

\* recordRead: the graph after the read (edge writer -> reader when the
\* version's writer is in the write history).
recordReadGraph(g, wh, readerId, variableId, versionTimestamp) ==
    LET g1 == registerTransaction(g, readerId)
        writers == WritersOf(wh, variableId, versionTimestamp)
    IN IF writers = {} THEN g1
       ELSE addEdge(g1, CHOOSE w \in writers : TRUE, readerId)

recordReadHistory(rh, readerId, variableId) ==
    MapSet(rh, readerId,
           (IF readerId \in DOMAIN rh THEN rh[readerId] ELSE {}) \cup {variableId})

\* A conflict test that looks for a last writer that committed before the
\* transaction began.
FcwConflicts_Inverted(lw, transaction) ==
    {k \in 1..Len(transaction.writeSet) :
        LET varId == transaction.writeSet[k].variableId
        IN varId \in DOMAIN lw
           /\ lw[varId].commitTime < transaction.beginTimestamp}

\* The positions of the write set whose variable has a last writer that
\* committed after the transaction began.
FcwConflicts(lw, transaction) ==
    {k \in 1..Len(transaction.writeSet) :
        LET varId == transaction.writeSet[k].variableId
        IN varId \in DOMAIN lw
           /\ lw[varId].commitTime > transaction.beginTimestamp}

\* checkFirstCommitterWins: the first conflict in write-set order decides.
checkFirstCommitterWins(lw, transaction) ==
    LET conflicts == FcwConflicts(lw, transaction)
    IN IF conflicts = {}
       THEN [canCommit |-> TRUE, variable |-> 0, writer |-> ""]
       ELSE LET k == CHOOSE c \in conflicts : \A d \in conflicts : c <= d
                varId == transaction.writeSet[k].variableId
            IN [canCommit |-> FALSE, variable |-> varId,
                writer |-> lw[varId].transactionId]

WrittenVars(transaction) ==
    {transaction.writeSet[k].variableId : k \in 1..Len(transaction.writeSet)}

\* The sources of the WW edges checkSerializability adds into transactionId.
WWSources(lw, transactionId, transaction) ==
    {lw[i].transactionId : i \in {j \in WrittenVars(transaction) :
        j \in DOMAIN lw /\ lw[j].transactionId # transactionId}}

\* The sources of the RW edges checkSerializability adds into transactionId.
\* checkSerializability without its read-write (anti-dependency) edges.
RWSources_None(rh, transactionId, transaction) == {}

RWSources(rh, transactionId, transaction) ==
    {o \in DOMAIN rh : o # transactionId
                       /\ rh[o] \cap WrittenVars(transaction) # {}}

RECURSIVE addEdgesFrom(_, _, _)
addEdgesFrom(g, sources, toId) ==
    IF sources = {} THEN g
    ELSE LET f == CHOOSE x \in sources : TRUE
         IN addEdgesFrom(addEdge(g, f, toId), sources \ {f}, toId)

\* The graph after checkSerializability has added its WW and RW edges.
serializabilityGraph(g, lw, rh, transactionId, transaction) ==
    addEdgesFrom(g, WWSources(lw, transactionId, transaction)
                    \cup RWSources(rh, transactionId, transaction),
                 transactionId)

\* hasCycle: depth-first search from startNode with a visited set and a
\* recursion stack; a neighbour already on the stack is a back edge.
RECURSIVE dfs(_, _, _, _)
RECURSIVE dfsNeighbors(_, _, _, _)
dfsNeighbors(g, todo, visited, recStack) ==
    IF todo = {} THEN [found |-> FALSE, visited |-> visited, recStack |-> recStack]
    ELSE LET neighbor == CHOOSE n \in todo : TRUE
         IN IF neighbor \notin visited
            THEN LET res == dfs(g, neighbor, visited, recStack)
                 IN IF res.found THEN res
                    ELSE dfsNeighbors(g, todo \ {neighbor}, res.visited, res.recStack)
            ELSE IF neighbor \in recStack
            THEN [found |-> TRUE, visited |-> visited, recStack |-> recStack]
            ELSE dfsNeighbors(g, todo \ {neighbor}, visited, recStack)

dfs(g, nodeId, visited, recStack) ==
    IF nodeId \notin visited
    THEN LET res == IF nodeId \in DOMAIN g
                    THEN dfsNeighbors(g, g[nodeId], visited \cup {nodeId},
                                      recStack \cup {nodeId})
                    ELSE [found |-> FALSE, visited |-> visited \cup {nodeId},
                          recStack |-> recStack \cup {nodeId}]
         IN IF res.found THEN res
            ELSE [found |-> FALSE, visited |-> res.visited,
                  recStack |-> res.recStack \ {nodeId}]
    ELSE [found |-> FALSE, visited |-> visited, recStack |-> recStack \ {nodeId}]

\* hasCycle answering as if the depth-first search never met a back edge.
hasCycle_Disabled(g, startNode) == FALSE

hasCycle(g, startNode) == dfs(g, startNode, {}, {}).found

checkSerializability(g, lw, rh, transactionId, transaction) ==
    ~hasCycle(serializabilityGraph(g, lw, rh, transactionId, transaction),
              transactionId)

\* commitTransaction recording a last writer only for a variable that has none.
commitLastWriter_KeepsFirst(lw, transactionId, transaction, commitTime) ==
    [i \in (DOMAIN lw) \cup WrittenVars(transaction) |->
        IF i \in DOMAIN lw THEN lw[i]
        ELSE [transactionId |-> transactionId, commitTime |-> commitTime]]

commitLastWriter(lw, transactionId, transaction, commitTime) ==
    [i \in (DOMAIN lw) \cup WrittenVars(transaction) |->
        IF i \in WrittenVars(transaction)
        THEN [transactionId |-> transactionId, commitTime |-> commitTime]
        ELSE lw[i]]

commitWriteHistory(wh, transactionId, transaction, commitTime) ==
    MapSet(wh, transactionId, [i \in WrittenVars(transaction) |-> commitTime])

\* abortTransaction leaving the graph as it is.
abortGraph_Unpurged(g, transactionId) == g

\* abortTransaction: drop the node and every edge into it.
abortGraph(g, transactionId) ==
    [n \in (DOMAIN g) \ {transactionId} |-> g[n] \ {transactionId}]

\* ------------------------------------------------------ TransactionManager
NewTransaction(transactionId, now) ==
    [id |-> transactionId,
     status |-> "Active",
     beginTimestamp |-> now,
     commitTimestamp |-> None,
     readSet |-> EmptyMap,
     writeSet |-> <<>>,
     touchedSites |-> {}]

\* The write-set lookup never finding the variable.
WriteIndex_Absent(writeSet, variableId) == 0

\* The position of variableId in a write set (a Map in insertion order), or 0.
WriteIndex(writeSet, variableId) ==
    IF \E k \in 1..Len(writeSet) : writeSet[k].variableId = variableId
    THEN CHOOSE k \in 1..Len(writeSet) : writeSet[k].variableId = variableId
    ELSE 0

\* Map.set on the write set: an existing key keeps its position.
WriteSetPut(writeSet, variableId, value, targetSites) ==
    LET entry == [variableId |-> variableId, value |-> value,
                  targetSites |-> targetSites]
        k == WriteIndex(writeSet, variableId)
    IN IF k = 0 THEN Append(writeSet, entry) ELSE [writeSet EXCEPT ![k] = entry]

\* commit: the versions installed at the still-available target sites of one
\* write-set entry, in ascending site order, each followed by
\* enableReplicatedRead for a replicated variable.
\* commit stopping after the first target site of an entry.
installAtSites_FirstSite(acc, todo, varId, commitTime, value) ==
    IF todo = {} THEN acc
    ELSE LET siteId == CHOOSE s \in todo : \A r \in todo : s <= r
             st2 == addVersion(acc.store, siteId, varId, commitTime, value)
             ss2 == IF isReplicated(varId)
                    THEN enableReplicatedRead(acc.sites, st2, siteId, varId)
                    ELSE acc.sites
         IN [store |-> st2, sites |-> ss2]

RECURSIVE installAtSites(_, _, _, _, _)
installAtSites(acc, todo, varId, commitTime, value) ==
    IF todo = {} THEN acc
    ELSE LET siteId == CHOOSE s \in todo : \A r \in todo : s <= r
             st2 == addVersion(acc.store, siteId, varId, commitTime, value)
             ss2 == IF isReplicated(varId)
                    THEN enableReplicatedRead(acc.sites, st2, siteId, varId)
                    ELSE acc.sites
         IN installAtSites([store |-> st2, sites |-> ss2], todo \ {siteId},
                           varId, commitTime, value)

\* commit installing at the sites selectWriteSites returns at commit time.
RECURSIVE installWrites_CurrentSites(_, _, _, _)
installWrites_CurrentSites(acc, writeSet, k, commitTime) ==
    IF k > Len(writeSet) THEN acc
    ELSE LET entry == writeSet[k]
             availableTargetSites ==
                 selectWriteSites(acc.sites, acc.store, entry.variableId)
         IN installWrites_CurrentSites(
                installAtSites(acc, availableTargetSites, entry.variableId,
                               commitTime, entry.value),
                writeSet, k + 1, commitTime)

RECURSIVE installWrites(_, _, _, _)
installWrites(acc, writeSet, k, commitTime) ==
    IF k > Len(writeSet) THEN acc
    ELSE LET entry == writeSet[k]
             availableTargetSites ==
                 {s \in entry.targetSites : isAvailable(acc.sites, s)}
         IN installWrites(installAtSites(acc, availableTargetSites,
                                         entry.variableId, commitTime, entry.value),
                          writeSet, k + 1, commitTime)

\* handleSiteFailure without the test that the transaction is Active.
FailureVictims_AnyStatus(txns, siteId) ==
    {t \in DOMAIN txns : siteId \in txns[t].touchedSites}

\* handleSiteFailure without the test that the transaction touched the site.
FailureVictims_AllActive(txns, siteId) ==
    {t \in DOMAIN txns : txns[t].status = "Active"}

\* handleSiteFailure finding no transaction to abort.
FailureVictims_None(txns, siteId) == {}

\* The active transactions handleSiteFailure aborts.
FailureVictims(txns, siteId) ==
    {t \in DOMAIN txns : txns[t].status = "Active"
                         /\ siteId \in txns[t].touchedSites}

\* A set of transactions in Map insertion order (the order they began in).
RECURSIVE InBeginOrder(_, _)
InBeginOrder(txns, ids) ==
    IF ids = {} THEN <<>>
    ELSE LET first == CHOOSE t \in ids :
                          \A u \in ids : txns[t].beginTimestamp <= txns[u].beginTimestamp
         IN <<first>> \o InBeginOrder(txns, ids \ {first})

AbortLine(transactionId, reason, site, variable, other) ==
    Line("aborts", transactionId, variable, 0, reason, site, other)

\* abort(transactionId, reason) applied to the current state, on graph g.
Abort(transactionId, g, line) ==
    /\ transactions' = [transactions EXCEPT ![transactionId].status = "Aborted"]
    /\ graph' = abortGraph(g, transactionId)
    /\ writeHistory' = MapDelete(writeHistory, transactionId)
    /\ readHistory' = MapDelete(readHistory, transactionId)
    /\ output' = <<line>>
    /\ UNCHANGED <<currentTime, store, sites, lastWriter>>

\* The first write-set entry for which addVersion throws (the entry's
\* available target site does not store the variable); 0 if there is none.
\* Only the single target of a non-replicated variable can be such a site:
\* selectWriteSites keeps, for a replicated variable, the sites that have it.
FirstRejected(ss, st, writeSet) ==
    LET ks == {k \in 1..Len(writeSet) :
                  \E s \in writeSet[k].targetSites :
                      /\ isAvailable(ss, s)
                      /\ ~hasVariable(st, s, writeSet[k].variableId)}
    IN IF ks = {} THEN 0 ELSE CHOOSE k \in ks : \A j \in ks : k <= j

\* commit(transactionId) when addVersion throws at entry k: the status and
\* commit timestamp are set and the entries before k are installed; the
\* Error leaves commit before commitTransaction, the 'commits' line and the
\* clock increment.
CommitThrows(transactionId, g, k) ==
    LET transaction == transactions[transactionId]
        commitTime == currentTime
        installed == installWrites([store |-> store, sites |-> sites],
                                   SubSeq(transaction.writeSet, 1, k - 1), 1,
                                   commitTime)
        entry == transaction.writeSet[k]
        siteId == CHOOSE s \in entry.targetSites :
                      /\ isAvailable(sites, s)
                      /\ ~hasVariable(store, s, entry.variableId)
    IN /\ transactions' = [transactions EXCEPT
                              ![transactionId].status = "Committed",
                              ![transactionId].commitTimestamp = Some(commitTime)]
       /\ store' = installed.store
       /\ sites' = installed.sites
       /\ graph' = g
       /\ output' = <<ErrorLine("not found at site", siteId, entry.variableId)>>
       /\ UNCHANGED <<currentTime, lastWriter, writeHistory, readHistory>>

\* commit(transactionId) applied to the current state, on graph g.
Commit(transactionId, g) ==
    LET transaction == transactions[transactionId]
        commitTime == currentTime
        installed == installWrites([store |-> store, sites |-> sites],
                                   transaction.writeSet, 1, commitTime)
        rejected == FirstRejected(sites, store, transaction.writeSet)
    IN IF rejected # 0 THEN CommitThrows(transactionId, g, rejected) ELSE
       /\ transactions' = [transactions EXCEPT
                              ![transactionId].status = "Committed",
                              ![transactionId].commitTimestamp = Some(commitTime)]
       /\ store' = installed.store
       /\ sites' = installed.sites
       /\ lastWriter' = commitLastWriter(lastWriter, transactionId, transaction,
                                         commitTime)
       /\ writeHistory' = commitWriteHistory(writeHistory, transactionId,
                                             transaction, commitTime)
       /\ graph' = g
       /\ output' = <<Line("commits", transactionId, 0, 0, "", 0, "")>>
       /\ currentTime' = currentTime + 1
       /\ UNCHANGED readHistory

\* A directive that only prints.
PrintOnly(lines) ==
    /\ output' = lines
    /\ UNCHANGED <<transactions, currentTime, store, sites, lastWriter, graph,
                   writeHistory, readHistory>>

\* ---------------------------------------------------------------- actions
Init ==
    /\ transactions = EmptyMap
    /\ currentTime = 1
    /\ store = [s \in SiteIds |-> initializeSite(SiteVariables(s))]
    /\ sites = [s \in SiteIds |-> InitialSite(s)]
    /\ lastWriter = EmptyMap
    /\ graph = EmptyMap
    /\ writeHistory = EmptyMap
    /\ readHistory = EmptyMap
    /\ output = <<>>
    /\ steps = 0
    /\ history = <<>>

\* begin without the increment of the clock.
Begin_NoTick(transactionId) ==
    IF transactionId \in DOMAIN transactions
    THEN PrintOnly(<<Line("already exists", transactionId, 0, 0, "", 0, "")>>)
    ELSE /\ transactions' = MapSet(transactions, transactionId,
                                   NewTransaction(transactionId, currentTime))
         /\ graph' = registerTransaction(graph, transactionId)
         /\ output' = <<>>
         /\ UNCHANGED <<currentTime, store, sites, lastWriter, writeHistory,
                        readHistory>>

\* begin advancing the clock for a name that already exists as well.
Begin_DuplicateTicks(transactionId) ==
    IF transactionId \in DOMAIN transactions
    THEN /\ output' = <<Line("already exists", transactionId, 0, 0, "", 0, "")>>
         /\ currentTime' = currentTime + 1
         /\ UNCHANGED <<transactions, store, sites, lastWriter, graph,
                        writeHistory, readHistory>>
    ELSE /\ transactions' = MapSet(transactions, transactionId,
                                   NewTransaction(transactionId, currentTime))
         /\ graph' = registerTransaction(graph, transactionId)
         /\ currentTime' = currentTime + 1
         /\ output' = <<>>
         /\ UNCHANGED <<store, sites, lastWriter, writeHistory, readHistory>>

Begin(transactionId) ==
    IF transactionId \in DOMAIN transactions
    THEN PrintOnly(<<Line("already exists", transactionId, 0, 0, "", 0, "")>>)
    ELSE /\ transactions' = MapSet(transactions, transactionId,
                                   NewTransaction(transactionId, currentTime))
         /\ graph' = registerTransaction(graph, transactionId)
         /\ currentTime' = currentTime + 1
         /\ output' = <<>>
         /\ UNCHANGED <<store, sites, lastWriter, writeHistory, readHistory>>

\* read aborting the transaction when no site is eligible.
ReadNoSite_Aborts(transactionId, variableId) ==
    Abort(transactionId, graph,
          AbortLine(transactionId, "no eligible site", 0, variableId, ""))

\* read, when selectReadSite returns null: print and return null.
ReadNoSite(transactionId, variableId) ==
    PrintOnly(<<Line("cannot read", transactionId, variableId, 0,
                     "no eligible site", 0, "")>>)

Read(transactionId, variableId) ==
    IF transactionId \notin DOMAIN transactions
    THEN PrintOnly(<<Line("does not exist", transactionId, 0, 0, "", 0, "")>>)
    ELSE IF transactions[transactionId].status # "Active"
    THEN PrintOnly(<<Line("is not active", transactionId, 0, 0, "", 0, "")>>)
    ELSE LET transaction == transactions[transactionId]
             k == WriteIndex(transaction.writeSet, variableId)
             readResult == selectReadSite(sites, store, variableId,
                                          transaction.beginTimestamp)
         IN IF k # 0
            THEN PrintOnly(<<Line("read from write set", transactionId, variableId,
                                  transaction.writeSet[k].value, "", 0, "")>>)
            ELSE IF readResult = None
            THEN ReadNoSite(transactionId, variableId)
            ELSE LET siteId == readResult[1].siteId
                     versionTimestamp == readResult[1].versionTimestamp
                     version == getVersion(store, siteId, variableId,
                                           transaction.beginTimestamp)
                 IN IF version = None
                    THEN PrintOnly(<<Line("cannot read", transactionId, variableId,
                                          0, "no version", 0, "")>>)
                    ELSE /\ transactions' =
                              [transactions EXCEPT
                                 ![transactionId].readSet =
                                     MapSet(@, variableId,
                                            [siteId |-> siteId,
                                             timestamp |-> versionTimestamp]),
                                 ![transactionId].touchedSites = @ \cup {siteId}]
                         /\ readHistory' = recordReadHistory(readHistory,
                                                             transactionId, variableId)
                         /\ graph' = recordReadGraph(graph, writeHistory, transactionId,
                                                     variableId, versionTimestamp)
                         /\ output' = <<Line("read", transactionId, variableId,
                                             version[1].value, "", 0, "")>>
                         /\ UNCHANGED <<currentTime, store, sites, lastWriter,
                                        writeHistory>>

\* write installing the value at its target sites at once.
Write_Installs(transactionId, variableId, value) ==
    IF transactionId \notin DOMAIN transactions
    THEN PrintOnly(<<Line("does not exist", transactionId, 0, 0, "", 0, "")>>)
    ELSE IF transactions[transactionId].status # "Active"
    THEN PrintOnly(<<Line("is not active", transactionId, 0, 0, "", 0, "")>>)
    ELSE LET targetSites == selectWriteSites(sites, store, variableId)
             installed == installAtSites([store |-> store, sites |-> sites],
                                         targetSites, variableId, currentTime,
                                         value)
         IN /\ transactions' =
                  [transactions EXCEPT
                     ![transactionId].writeSet =
                         WriteSetPut(@, variableId, value, targetSites),
                     ![transactionId].touchedSites = @ \cup targetSites]
            /\ store' = installed.store
            /\ output' = <<>>
            /\ UNCHANGED <<currentTime, sites, lastWriter, graph,
                           writeHistory, readHistory>>

Write(transactionId, variableId, value) ==
    IF transactionId \notin DOMAIN transactions
    THEN PrintOnly(<<Line("does not exist", transactionId, 0, 0, "", 0, "")>>)
    ELSE IF transactions[transactionId].status # "Active"
    THEN PrintOnly(<<Line("is not active", transactionId, 0, 0, "", 0, "")>>)
    ELSE LET targetSites == selectWriteSites(sites, store, variableId)
         IN /\ transactions' =
                  [transactions EXCEPT
                     ![transactionId].writeSet =
                         WriteSetPut(@, variableId, value, targetSites),
                     ![transactionId].touchedSites = @ \cup targetSites]
            /\ output' = <<>>
            /\ UNCHANGED <<currentTime, store, sites, lastWriter, graph,
                           writeHistory, readHistory>>

\* end running the serialization check before the first-committer-wins check.
End_CycleFirst(transactionId) ==
    IF transactionId \notin DOMAIN transactions
    THEN PrintOnly(<<Line("does not exist", transactionId, 0, 0, "", 0, "")>>)
    ELSE IF transactions[transactionId].status # "Active"
    THEN PrintOnly(<<Line("is already", transactionId, 0, 0, "", 0,
                          transactions[transactionId].status)>>)
    ELSE LET transaction == transactions[transactionId]
             fcwResult == checkFirstCommitterWins(lastWriter, transaction)
             g2 == serializabilityGraph(graph, lastWriter, readHistory,
                                        transactionId, transaction)
         IN IF \E s \in transaction.touchedSites : ~isAvailable(sites, s)
            THEN Abort(transactionId, graph,
                       AbortLine(transactionId, "site failure after access", 0, 0, ""))
            ELSE IF \E k \in 1..Len(transaction.writeSet) :
                       \A s \in transaction.writeSet[k].targetSites :
                           ~isAvailable(sites, s)
            THEN Abort(transactionId, graph,
                       AbortLine(transactionId, "no available site for write", 0, 0, ""))
            ELSE IF ~checkSerializability(graph, lastWriter, readHistory,
                                          transactionId, transaction)
            THEN Abort(transactionId, g2,
                       AbortLine(transactionId, "Serialization cycle detected", 0, 0, ""))
            ELSE IF ~fcwResult.canCommit
            THEN Abort(transactionId, g2,
                       AbortLine(transactionId, "First-committer-wins conflict", 0,
                                 fcwResult.variable, fcwResult.writer))
            ELSE Commit(transactionId, g2)

\* end without the test that every buffered write has an available target.
End_NoTargetCheck(transactionId) ==
    IF transactionId \notin DOMAIN transactions
    THEN PrintOnly(<<Line("does not exist", transactionId, 0, 0, "", 0, "")>>)
    ELSE IF transactions[transactionId].status # "Active"
    THEN PrintOnly(<<Line("is already", transactionId, 0, 0, "", 0,
                          transactions[transactionId].status)>>)
    ELSE LET transaction == transactions[transactionId]
             fcwResult == checkFirstCommitterWins(lastWriter, transaction)
             g2 == serializabilityGraph(graph, lastWriter, readHistory,
                                        transactionId, transaction)
         IN IF \E s \in transaction.touchedSites : ~isAvailable(sites, s)
            THEN Abort(transactionId, graph,
                       AbortLine(transactionId, "site failure after access", 0, 0, ""))
            ELSE IF ~fcwResult.canCommit
            THEN Abort(transactionId, graph,
                       AbortLine(transactionId, "First-committer-wins conflict", 0,
                                 fcwResult.variable, fcwResult.writer))
            ELSE IF ~checkSerializability(graph, lastWriter, readHistory,
                                          transactionId, transaction)
            THEN Abort(transactionId, g2,
                       AbortLine(transactionId, "Serialization cycle detected", 0, 0, ""))
            ELSE Commit(transactionId, g2)

End(transactionId) ==
    IF transactionId \notin DOMAIN transactions
    THEN PrintOnly(<<Line("does not exist", transactionId, 0, 0, "", 0, "")>>)
    ELSE IF transactions[transactionId].status # "Active"
    THEN PrintOnly(<<Line("is already", transactionId, 0, 0, "", 0,
                          transactions[transactionId].status)>>)
    ELSE LET transaction == transactions[transactionId]
             fcwResult == checkFirstCommitterWins(lastWriter, transaction)
             g2 == serializabilityGraph(graph, lastWriter, readHistory,
                                        transactionId, transaction)
         IN IF \E s \in transaction.touchedSites : ~isAvailable(sites, s)
            THEN Abort(transactionId, graph,
                       AbortLine(transactionId, "site failure after access", 0, 0, ""))
            ELSE IF \E k \in 1..Len(transaction.writeSet) :
                       \A s \in transaction.writeSet[k].targetSites :
                           ~isAvailable(sites, s)
            THEN Abort(transactionId, graph,
                       AbortLine(transactionId, "no available site for write", 0, 0, ""))
            ELSE IF ~fcwResult.canCommit
            THEN Abort(transactionId, graph,
                       AbortLine(transactionId, "First-committer-wins conflict", 0,
                                 fcwResult.variable, fcwResult.writer))
            ELSE IF ~checkSerializability(graph, lastWriter, readHistory,
                                          transactionId, transaction)
            THEN Abort(transactionId, g2,
                       AbortLine(transactionId, "Serialization cycle detected", 0, 0, ""))
            ELSE Commit(transactionId, g2)

\* Driver.executeCommand, case "fail": SiteManager.fail, then
\* handleSiteFailure, then advanceTime.
Fail(siteId) ==
    LET victims == FailureVictims(transactions, siteId)
    IN IF siteId \notin DOMAIN sites
       THEN PrintOnly(<<ErrorLine("does not exist", siteId, 0)>>) ELSE
       /\ sites' = SiteManagerFail(sites, siteId, currentTime)
       /\ transactions' = [t \in DOMAIN transactions |->
                              IF t \in victims
                              THEN [transactions[t] EXCEPT !.status = "Aborted"]
                              ELSE transactions[t]]
       /\ graph' = [n \in (DOMAIN graph) \ victims |-> graph[n] \ victims]
       /\ writeHistory' = [t \in (DOMAIN writeHistory) \ victims |-> writeHistory[t]]
       /\ readHistory' = [t \in (DOMAIN readHistory) \ victims |-> readHistory[t]]
       /\ output' = [k \in 1..Cardinality(victims) |->
                        AbortLine(InBeginOrder(transactions, victims)[k],
                                  "site failed", siteId, 0, "")]
       /\ currentTime' = currentTime + 1
       /\ UNCHANGED <<store, lastWriter>>

\* The recover case without its advanceTime call.
Recover_NoTick(siteId) ==
    /\ sites' = SiteManagerRecover(sites, store, siteId, currentTime)
    /\ output' = <<>>
    /\ UNCHANGED <<transactions, currentTime, store, lastWriter, graph,
                   writeHistory, readHistory>>

\* Driver.executeCommand, case "recover": SiteManager.recover, then advanceTime.
Recover(siteId) ==
    IF siteId \notin DOMAIN sites
    THEN PrintOnly(<<ErrorLine("does not exist", siteId, 0)>>) ELSE
    /\ sites' = SiteManagerRecover(sites, store, siteId, currentTime)
    /\ currentTime' = currentTime + 1
    /\ output' = <<>>
    /\ UNCHANGED <<transactions, store, lastWriter, graph, writeHistory,
                   readHistory>>

\* The reset case keeping the clock of the replaced TransactionManager.
Reset_KeepsClock ==
    /\ transactions' = EmptyMap
    /\ store' = [s \in SiteIds |-> initializeSite(SiteVariables(s))]
    /\ sites' = [s \in SiteIds |-> InitialSite(s)]
    /\ lastWriter' = EmptyMap
    /\ graph' = EmptyMap
    /\ writeHistory' = EmptyMap
    /\ readHistory' = EmptyMap
    /\ output' = <<>>
    /\ UNCHANGED currentTime

\* Driver.executeCommand, case "reset": every module is constructed anew.
Reset ==
    /\ transactions' = EmptyMap
    /\ currentTime' = 1
    /\ store' = [s \in SiteIds |-> initializeSite(SiteVariables(s))]
    /\ sites' = [s \in SiteIds |-> InitialSite(s)]
    /\ lastWriter' = EmptyMap
    /\ graph' = EmptyMap
    /\ writeHistory' = EmptyMap
    /\ readHistory' = EmptyMap
    /\ output' = <<>>

\* ReplicationRouter.getSitesForVariable: the sites storing the variable.
getSitesForVariable(st, variableId) ==
    {s \in DOMAIN st : hasVariable(st, s, variableId)}

\* dump: the lines of the changed variables from varId on, in ascending
\* order.  The value shown is the latest version at the first site storing
\* the variable.
RECURSIVE changedVariables(_, _)
changedVariables(st, varId) ==
    IF varId > NUM_VARIABLES THEN <<>>
    ELSE LET ss == getSitesForVariable(st, varId)
             initialValue == varId * 10
             firstSite == CHOOSE s \in ss : \A r \in ss : s <= r
             version == getLatestVersion(st, firstSite, varId)
             line == IF ss = {} \/ version = None
                        \/ version[1].value = initialValue THEN <<>>
                     ELSE IF isReplicated(varId)
                     THEN <<Line("dump", "", varId, version[1].value, "", 0,
                                 "at all sites")>>
                     ELSE <<Line("dump", "", varId, version[1].value, "",
                                 firstSite, "at site")>>
         IN line \o changedVariables(st, varId + 1)

\* Driver.executeCommand, case "dump": TransactionManager.dump.
Dump ==
    LET lines == changedVariables(store, 1)
        summary == IF lines # <<>>
                   THEN "All other variables have their initial values."
                   ELSE "All variables have their initial values."
    IN PrintOnly(lines \o <<Line("summary", "", 0, 0, "", 0, summary)>>)

\* ------------------------------------------------------------ transcripts
\* Driver.run executes the directives of a transcript in order.  Each
\* specification below runs every transcript, up to a length, over one
\* alphabet of directives.
\* An Error thrown by executeCommand ends the loop of Driver.run.
Raised == Len(output) = 1 /\ output[1].kind = "Error"
Step(max) == ~Raised /\ steps < max /\ steps' = steps + 1

\* The variables the directives of Spec and SpecScript name: x1 (not
\* replicated, at site 1) and x2 (replicated).
DirectiveVars == {1, 2}

\* Spec: every directive kind, transcripts of at most MaxSteps directives.
DoBegin == \E t \in TxIds : Step(MaxSteps) /\ Begin(t) /\ UNCHANGED history
DoRead ==
    \E t \in TxIds, i \in DirectiveVars :
        Step(MaxSteps) /\ Read(t, i) /\ UNCHANGED history
DoWrite ==
    \E t \in TxIds, i \in DirectiveVars, v \in Values :
        Step(MaxSteps) /\ Write(t, i, v) /\ UNCHANGED history
DoEnd == \E t \in TxIds : Step(MaxSteps) /\ End(t) /\ UNCHANGED history
DoFail == \E s \in SiteIds : Step(MaxSteps) /\ Fail(s) /\ UNCHANGED history
DoRecover == \E s \in SiteIds : Step(MaxSteps) /\ Recover(s) /\ UNCHANGED history

Next ==
    \/ DoBegin
    \/ DoRead
    \/ DoWrite
    \/ DoEnd
    \/ DoFail
    \/ DoRecover

Spec == Init /\ [][Next]_vars

\* SpecTxn: transcripts without site failures over the variables x1 (not
\* replicated) and x2 (replicated), at most MaxTxnSteps directives.
TxnVars == {1, 2}
TxnBegin == \E t \in TxIds : Step(MaxTxnSteps) /\ Begin(t) /\ UNCHANGED history
TxnRead ==
    \E t \in TxIds, i \in TxnVars : Step(MaxTxnSteps) /\ Read(t, i) /\ UNCHANGED history
TxnWrite ==
    \E t \in TxIds, i \in TxnVars, v \in Values :
        Step(MaxTxnSteps) /\ Write(t, i, v) /\ UNCHANGED history
TxnEnd == \E t \in TxIds : Step(MaxTxnSteps) /\ End(t) /\ UNCHANGED history

TxnNext ==
    \/ TxnBegin
    \/ TxnRead
    \/ TxnWrite
    \/ TxnEnd

SpecTxn == Init /\ [][TxnNext]_vars

\* SpecScript: every directive kind, at most MaxScript directives, with the
\* transcript executed so far kept in history.
Directive(type, transactionId, variable, value, siteId) ==
    [type |-> type, transactionId |-> transactionId, variable |-> variable,
     value |-> value, siteId |-> siteId]
Record(d) == Step(MaxScript) /\ history' = Append(history, d)

ScriptBegin == \E t \in TxIds : Record(Directive("begin", t, 0, 0, 0)) /\ Begin(t)
ScriptRead ==
    \E t \in TxIds, i \in DirectiveVars :
        Record(Directive("read", t, i, 0, 0)) /\ Read(t, i)
ScriptWrite ==
    \E t \in TxIds, i \in DirectiveVars, v \in Values :
        Record(Directive("write", t, i, v, 0)) /\ Write(t, i, v)
ScriptEnd == \E t \in TxIds : Record(Directive("end", t, 0, 0, 0)) /\ End(t)
ScriptFail == \E s \in SiteIds : Record(Directive("fail", "", 0, 0, s)) /\ Fail(s)
ScriptRecover ==
    \E s \in SiteIds : Record(Directive("recover", "", 0, 0, s)) /\ Recover(s)

ScriptNext ==
    \/ ScriptBegin
    \/ ScriptRead
    \/ ScriptWrite
    \/ ScriptEnd
    \/ ScriptFail
    \/ ScriptRecover

SpecScript == Init /\ [][ScriptNext]_vars

\* SpecWrite: transcripts of begin, write, end and the failure and recovery
\* of site 1 (the home of x1), at most MaxWriteSteps directives.
WriteVars == {1, 2}
WriteSites == {1}
WBegin == \E t \in TxIds : Step(MaxWriteSteps) /\ Begin(t) /\ UNCHANGED history
WWrite ==
    \E t \in TxIds, i \in WriteVars, v \in Values :
        Step(MaxWriteSteps) /\ Write(t, i, v) /\ UNCHANGED history
WEnd == \E t \in TxIds : Step(MaxWriteSteps) /\ End(t) /\ UNCHANGED history
WFail == \E s \in WriteSites : Step(MaxWriteSteps) /\ Fail(s) /\ UNCHANGED history
WRecover ==
    \E s \in WriteSites : Step(MaxWriteSteps) /\ Recover(s) /\ UNCHANGED history

WriteNext ==
    \/ WBegin
    \/ WWrite
    \/ WEnd
    \/ WFail
    \/ WRecover

SpecWrite == Init /\ [][WriteNext]_vars

\* SpecRecovery: well-formed transcripts (begin names a new transaction; read,
\* write and end name an Active one) over x1 and x2 with the failure and
\* recovery of site 1, at most MaxRecSteps directives.
RecVars == {1, 2}
RecSites == {1}
RecBegin ==
    \E t \in TxIds :
        /\ t \notin DOMAIN transactions
        /\ Step(MaxRecSteps) /\ Begin(t) /\ UNCHANGED history
RecRead ==
    \E t \in TxIds, i \in RecVars :
        /\ t \in DOMAIN transactions /\ transactions[t].status = "Active"
        /\ Step(MaxRecSteps) /\ Read(t, i) /\ UNCHANGED history
RecWrite ==
    \E t \in TxIds, i \in RecVars, v \in Values :
        /\ t \in DOMAIN transactions /\ transactions[t].status = "Active"
        /\ Step(MaxRecSteps) /\ Write(t, i, v) /\ UNCHANGED history
RecEnd ==
    \E t \in TxIds :
        /\ t \in DOMAIN transactions /\ transactions[t].status = "Active"
        /\ Step(MaxRecSteps) /\ End(t) /\ UNCHANGED history
RecFail == \E s \in RecSites : Step(MaxRecSteps) /\ Fail(s) /\ UNCHANGED history
RecRecover ==
    \E s \in RecSites : Step(MaxRecSteps) /\ Recover(s) /\ UNCHANGED history

RecNext ==
    \/ RecBegin
    \/ RecRead
    \/ RecWrite
    \/ RecEnd
    \/ RecFail
    \/ RecRecover

SpecRecovery == Init /\ [][RecNext]_vars

\* SpecOwn: well-formed transcripts over x1 and x2 that write two distinct
\* values, with the failure and recovery of site 1, at most MaxOwnSteps
\* directives.
OwnValues == {101, 102}
OwnVars == {1, 2}
OwnSites == {1}
OwnBegin ==
    \E t \in TxIds :
        /\ t \notin DOMAIN transactions
        /\ Step(MaxOwnSteps) /\ Begin(t) /\ UNCHANGED history
OwnRead ==
    \E t \in TxIds, i \in OwnVars :
        /\ t \in DOMAIN transactions /\ transactions[t].status = "Active"
        /\ Step(MaxOwnSteps) /\ Read(t, i) /\ UNCHANGED history
OwnWrite ==
    \E t \in TxIds, i \in OwnVars, v \in OwnValues :
        /\ t \in DOMAIN transactions /\ transactions[t].status = "Active"
        /\ Step(MaxOwnSteps) /\ Write(t, i, v) /\ UNCHANGED history
OwnEnd ==
    \E t \in TxIds :
        /\ t \in DOMAIN transactions /\ transactions[t].status = "Active"
        /\ Step(MaxOwnSteps) /\ End(t) /\ UNCHANGED history
OwnFail == \E s \in OwnSites : Step(MaxOwnSteps) /\ Fail(s) /\ UNCHANGED history
OwnRecover ==
    \E s \in OwnSites : Step(MaxOwnSteps) /\ Recover(s) /\ UNCHANGED history

OwnNext ==
    \/ OwnBegin
    \/ OwnRead
    \/ OwnWrite
    \/ OwnEnd
    \/ OwnFail
    \/ OwnRecover

SpecOwn == Init /\ [][OwnNext]_vars

\* SpecAdmit: well-formed transcripts of begin, write and end over the
\* replicated variables x2 and x4, with the failure and recovery of site 1,
\* at most MaxAdmitSteps directives.
AdmitVars == {2, 4}
AdmitSites == {1}
AdmitBegin ==
    \E t \in TxIds :
        /\ t \notin DOMAIN transactions
        /\ Step(MaxAdmitSteps) /\ Begin(t) /\ UNCHANGED history
AdmitWrite ==
    \E t \in TxIds, i \in AdmitVars, v \in Values :
        /\ t \in DOMAIN transactions /\ transactions[t].status = "Active"
        /\ Step(MaxAdmitSteps) /\ Write(t, i, v) /\ UNCHANGED history
AdmitEnd ==
    \E t \in TxIds :
        /\ t \in DOMAIN transactions /\ transactions[t].status = "Active"
        /\ Step(MaxAdmitSteps) /\ End(t) /\ UNCHANGED history
AdmitFail ==
    \E s \in AdmitSites : Step(MaxAdmitSteps) /\ Fail(s) /\ UNCHANGED history
AdmitRecover ==
    \E s \in AdmitSites : Step(MaxAdmitSteps) /\ Recover(s) /\ UNCHANGED history

AdmitNext ==
    \/ AdmitBegin
    \/ AdmitWrite
    \/ AdmitEnd
    \/ AdmitFail
    \/ AdmitRecover

SpecAdmit == Init /\ [][AdmitNext]_vars

\* SpecDriver: every directive kind carrying any site or variable number the
\* parser accepts: the sites and variables of the system and one number
\* outside each range, at most MaxDriverSteps directives.
OutsideSite == NUM_SITES + 1
OutsideVar == NUM_VARIABLES + 1 + (NUM_VARIABLES % 2)
DriverSites == SiteIds \cup {OutsideSite}
DriverVars == {1, 2, OutsideVar}
DriverBegin ==
    \E t \in TxIds : Step(MaxDriverSteps) /\ Begin(t) /\ UNCHANGED history
DriverRead ==
    \E t \in TxIds, i \in DriverVars :
        Step(MaxDriverSteps) /\ Read(t, i) /\ UNCHANGED history
DriverWrite ==
    \E t \in TxIds, i \in DriverVars, v \in Values :
        Step(MaxDriverSteps) /\ Write(t, i, v) /\ UNCHANGED history
DriverEnd ==
    \E t \in TxIds : Step(MaxDriverSteps) /\ End(t) /\ UNCHANGED history
DriverFail ==
    \E s \in DriverSites : Step(MaxDriverSteps) /\ Fail(s) /\ UNCHANGED history
DriverRecover ==
    \E s \in DriverSites : Step(MaxDriverSteps) /\ Recover(s) /\ UNCHANGED history

DriverNext ==
    \/ DriverBegin
    \/ DriverRead
    \/ DriverWrite
    \/ DriverEnd
    \/ DriverFail
    \/ DriverRecover

SpecDriver == Init /\ [][DriverNext]_vars

\* SpecReset: recorded transcripts of every directive kind and reset, on x1,
\* x2 and site 1, at most MaxResetSteps directives.
ResetVars == {1, 2}
ResetSites == {1}
RecordReset(d) == Step(MaxResetSteps) /\ history' = Append(history, d)
ResetBegin ==
    \E t \in TxIds : RecordReset(Directive("begin", t, 0, 0, 0)) /\ Begin(t)
ResetRead ==
    \E t \in TxIds, i \in ResetVars :
        RecordReset(Directive("read", t, i, 0, 0)) /\ Read(t, i)
ResetWrite ==
    \E t \in TxIds, i \in ResetVars, v \in Values :
        RecordReset(Directive("write", t, i, v, 0)) /\ Write(t, i, v)
ResetEnd ==
    \E t \in TxIds : RecordReset(Directive("end", t, 0, 0, 0)) /\ End(t)
ResetFail ==
    \E s \in ResetSites : RecordReset(Directive("fail", "", 0, 0, s)) /\ Fail(s)
ResetRecover ==
    \E s \in ResetSites :
        RecordReset(Directive("recover", "", 0, 0, s)) /\ Recover(s)
ResetReset == RecordReset(Directive("reset", "", 0, 0, 0)) /\ Reset

ResetNext ==
    \/ ResetBegin
    \/ ResetRead
    \/ ResetWrite
    \/ ResetEnd
    \/ ResetFail
    \/ ResetRecover
    \/ ResetReset

SpecReset == Init /\ [][ResetNext]_vars

\* SpecDump: well-formed transcripts of begin, write, end, dump and the
\* failure and recovery of either site, on x1 and x2, at most MaxDumpSteps
\* directives.
DumpVars == {1, 2}
DumpSites == {1, 2}
DumpBegin ==
    \E t \in TxIds :
        /\ t \notin DOMAIN transactions
        /\ Step(MaxDumpSteps) /\ Begin(t) /\ UNCHANGED history
DumpWrite ==
    \E t \in TxIds, i \in DumpVars, v \in Values :
        /\ t \in DOMAIN transactions /\ transactions[t].status = "Active"
        /\ Step(MaxDumpSteps) /\ Write(t, i, v) /\ UNCHANGED history
DumpEnd ==
    \E t \in TxIds :
        /\ t \in DOMAIN transactions /\ transactions[t].status = "Active"
        /\ Step(MaxDumpSteps) /\ End(t) /\ UNCHANGED history
DumpFail ==
    \E s \in DumpSites : Step(MaxDumpSteps) /\ Fail(s) /\ UNCHANGED history
DumpRecover ==
    \E s \in DumpSites : Step(MaxDumpSteps) /\ Recover(s) /\ UNCHANGED history
DumpDump == Step(MaxDumpSteps) /\ Dump /\ UNCHANGED history

DumpNext ==
    \/ DumpBegin
    \/ DumpWrite
    \/ DumpEnd
    \/ DumpFail
    \/ DumpRecover
    \/ DumpDump

SpecDump == Init /\ [][DumpNext]_vars

\* SpecPrecedence: well-formed transcripts with reads of x2, writes of x1 and
\* x2 and the failure and recovery of site 1 (the home of x1), at most
\* MaxPrecSteps directives.
PrecReadVars == {2}
PrecWriteVars == {1, 2}
PrecSites == {1}
PrecBegin ==
    \E t \in TxIds :
        /\ t \notin DOMAIN transactions
        /\ Step(MaxPrecSteps) /\ Begin(t) /\ UNCHANGED history
PrecRead ==
    \E t \in TxIds, i \in PrecReadVars :
        /\ t \in DOMAIN transactions /\ transactions[t].status = "Active"
        /\ Step(MaxPrecSteps) /\ Read(t, i) /\ UNCHANGED history
PrecWrite ==
    \E t \in TxIds, i \in PrecWriteVars, v \in Values :
        /\ t \in DOMAIN transactions /\ transactions[t].status = "Active"
        /\ Step(MaxPrecSteps) /\ Write(t, i, v) /\ UNCHANGED history
PrecEnd ==
    \E t \in TxIds :
        /\ t \in DOMAIN transactions /\ transactions[t].status = "Active"
        /\ Step(MaxPrecSteps) /\ End(t) /\ UNCHANGED history
PrecFail ==
    \E s \in PrecSites : Step(MaxPrecSteps) /\ Fail(s) /\ UNCHANGED history
PrecRecover ==
    \E s \in PrecSites : Step(MaxPrecSteps) /\ Recover(s) /\ UNCHANGED history

PrecNext ==
    \/ PrecBegin
    \/ PrecRead
    \/ PrecWrite
    \/ PrecEnd
    \/ PrecFail
    \/ PrecRecover

SpecPrecedence == Init /\ [][PrecNext]_vars

\* SpecCycle: the interleavings of four transaction programs on x2 and x4.
\* T1 reads x2 and writes x4, T2 writes x2, T3 reads x4 and then x2, T4 reads
\* x4.  The transactions begin in the order T1, T2, T3, T4; each runs its
\* accesses in program order and may end at any point; no site fails.  At
\* most MaxCycleSteps directives.
CycleTxIds == <<"T1", "T2", "T3", "T4">>
CycleProgram ==
    <<<<[kind |-> "read", variable |-> 2], [kind |-> "write", variable |-> 4]>>,
      <<[kind |-> "write", variable |-> 2]>>,
      <<[kind |-> "read", variable |-> 4], [kind |-> "read", variable |-> 2]>>,
      <<[kind |-> "read", variable |-> 4]>>>>

\* The number of accesses transaction k has made.
CycleDone(k) ==
    Cardinality(DOMAIN transactions[CycleTxIds[k]].readSet)
        + Len(transactions[CycleTxIds[k]].writeSet)

\* Transaction k is Active and its next access is of the given kind.
CycleAt(k, kind) ==
    /\ CycleTxIds[k] \in DOMAIN transactions
    /\ transactions[CycleTxIds[k]].status = "Active"
    /\ CycleDone(k) < Len(CycleProgram[k])
    /\ CycleProgram[k][CycleDone(k) + 1].kind = kind

CycleBegin ==
    \E k \in DOMAIN CycleTxIds :
        /\ CycleTxIds[k] \notin DOMAIN transactions
        /\ k > 1 => CycleTxIds[k - 1] \in DOMAIN transactions
        /\ Step(MaxCycleSteps) /\ Begin(CycleTxIds[k]) /\ UNCHANGED history
CycleRead ==
    \E k \in DOMAIN CycleTxIds :
        /\ CycleAt(k, "read")
        /\ Step(MaxCycleSteps)
        /\ Read(CycleTxIds[k], CycleProgram[k][CycleDone(k) + 1].variable)
        /\ UNCHANGED history
CycleWrite ==
    \E k \in DOMAIN CycleTxIds, v \in Values :
        /\ CycleAt(k, "write")
        /\ Step(MaxCycleSteps)
        /\ Write(CycleTxIds[k], CycleProgram[k][CycleDone(k) + 1].variable, v)
        /\ UNCHANGED history
CycleEnd ==
    \E k \in DOMAIN CycleTxIds :
        /\ CycleTxIds[k] \in DOMAIN transactions
        /\ transactions[CycleTxIds[k]].status = "Active"
        /\ Step(MaxCycleSteps) /\ End(CycleTxIds[k]) /\ UNCHANGED history

CycleNext ==
    \/ CycleBegin
    \/ CycleRead
    \/ CycleWrite
    \/ CycleEnd

SpecCycle == Init /\ [][CycleNext]_vars

\* SpecVersion: calls of VersionStore.addVersion on the initial store, with
\* the site drawn from SiteIds, the variable from VarIds and the timestamp
\* from 0..MaxTimestamp; a call for a variable the site does not hold throws.
\* At most MaxVersionSteps calls.
VersionTimestamps == 0..MaxTimestamp
AddVersionCall(siteId, variableId, timestamp, value) ==
    IF ~hasVariable(store, siteId, variableId)
    THEN PrintOnly(<<ErrorLine("not found at site", siteId, variableId)>>)
    ELSE /\ store' = addVersion(store, siteId, variableId, timestamp, value)
         /\ output' = <<>>
         /\ UNCHANGED <<transactions, currentTime, sites, lastWriter, graph,
                        writeHistory, readHistory>>

VersionAdd ==
    \E s \in SiteIds, i \in VarIds, ts \in VersionTimestamps, v \in Values :
        Step(MaxVersionSteps) /\ AddVersionCall(s, i, ts, v) /\ UNCHANGED history

VersionNext == VersionAdd

SpecVersion == Init /\ [][VersionNext]_vars

\* SpecStale: the interleavings of two writers and a reader of x2 with the
\* failures and recoveries of site 1.  T1 and T2 each write x2 once, T3 reads
\* x2; the transactions begin in the order T1, T2, T3 and may end at any
\* point.  At most MaxStaleSteps directives.
StaleTxIds == <<"T1", "T2", "T3">>
StaleWriters == {1, 2}
StaleReaders == {3}
StaleSites == {1}
StaleBegin ==
    \E k \in DOMAIN StaleTxIds :
        /\ StaleTxIds[k] \notin DOMAIN transactions
        /\ k > 1 => StaleTxIds[k - 1] \in DOMAIN transactions
        /\ Step(MaxStaleSteps) /\ Begin(StaleTxIds[k]) /\ UNCHANGED history
StaleRead ==
    \E k \in StaleReaders :
        /\ StaleTxIds[k] \in DOMAIN transactions
        /\ transactions[StaleTxIds[k]].status = "Active"
        /\ Step(MaxStaleSteps) /\ Read(StaleTxIds[k], 2) /\ UNCHANGED history
StaleWrite ==
    \E k \in StaleWriters, v \in Values :
        /\ StaleTxIds[k] \in DOMAIN transactions
        /\ transactions[StaleTxIds[k]].status = "Active"
        /\ transactions[StaleTxIds[k]].writeSet = <<>>
        /\ Step(MaxStaleSteps) /\ Write(StaleTxIds[k], 2, v) /\ UNCHANGED history
StaleEnd ==
    \E k \in DOMAIN StaleTxIds :
        /\ StaleTxIds[k] \in DOMAIN transactions
        /\ transactions[StaleTxIds[k]].status = "Active"
        /\ Step(MaxStaleSteps) /\ End(StaleTxIds[k]) /\ UNCHANGED history
StaleFail ==
    \E s \in StaleSites :
        /\ sites[s].state # "Failed"
        /\ Step(MaxStaleSteps) /\ Fail(s) /\ UNCHANGED history
StaleRecover ==
    \E s \in StaleSites :
        /\ sites[s].state = "Failed"
        /\ Step(MaxStaleSteps) /\ Recover(s) /\ UNCHANGED history

StaleNext ==
    \/ StaleBegin
    \/ StaleRead
    \/ StaleWrite
    \/ StaleEnd
    \/ StaleFail
    \/ StaleRecover

SpecStale == Init /\ [][StaleNext]_vars

\* ------------------------------------------------------- shared vocabulary
Status(t) == transactions[t].status
IsActive(t) == t \in DOMAIN transactions /\ Status(t) = "Active"
IsCommitted(t) == t \in DOMAIN transactions /\ Status(t) = "Committed"
IsAborted(t) == t \in DOMAIN transactions /\ Status(t) = "Aborted"
Wrote(t, i) ==
    \E k \in 1..Len(transactions[t].writeSet) :
        transactions[t].writeSet[k].variableId = i
HasRead(t, i) == i \in DOMAIN transactions[t].readSet
CommitTs(t) == transactions[t].commitTimestamp[1]
BeginTs(t) == transactions[t].beginTimestamp

\* ------------------------------------------------------------------- C1
\* A committed writer a of xi that committed after the active b began, b
\* having buffered a write of xi too.
FcwCase(a, b, i) ==
    /\ a # b
    /\ IsCommitted(a) /\ IsActive(b)
    /\ Wrote(a, i) /\ Wrote(b, i)
    /\ CommitTs(a) > BeginTs(b)

\* One of b's buffered writes has no target site that is available.
HasUntargetedWrite(b) ==
    \E k \in 1..Len(transactions[b].writeSet) :
        \A s \in transactions[b].writeSet[k].targetSites :
            sites[s].state = "Failed"

\* C1 as stated: whenever xi is written by A and B and A committed after B
\* began, end(B) aborts B with a First-committer-wins reason naming a
\* committed writer of xi.
C1_Original ==
    [][\A a \in TxIds, b \in TxIds, i \in VarIds :
          (FcwCase(a, b, i) /\ End(b)) =>
              /\ transactions'[b].status = "Aborted"
              /\ Len(output') = 1
              /\ output'[1].kind = "aborts" /\ output'[1].tx = b
              /\ output'[1].reason = "First-committer-wins conflict"
              /\ IsCommitted(output'[1].other) /\ Wrote(output'[1].other, i)]_vars

\* C1 amended: in that case end(B) aborts B, with a First-committer-wins
\* reason naming a committed writer, committed after B began, of a variable B
\* wrote, unless one of B's buffered writes has no available target site, and
\* then with the reason "no available site for write".
C1_FirstCommitterWins ==
    [][\A a \in TxIds, b \in TxIds, i \in VarIds :
          (FcwCase(a, b, i) /\ End(b)) =>
              /\ transactions'[b].status = "Aborted"
              /\ Len(output') = 1
              /\ output'[1].kind = "aborts" /\ output'[1].tx = b
              /\ IF HasUntargetedWrite(b)
                 THEN output'[1].reason = "no available site for write"
                 ELSE /\ output'[1].reason = "First-committer-wins conflict"
                      /\ Wrote(b, output'[1].variable)
                      /\ IsCommitted(output'[1].other)
                      /\ Wrote(output'[1].other, output'[1].variable)
                      /\ CommitTs(output'[1].other) > BeginTs(b)]_vars

\* Reached: B was aborted by its end for a first-committer-wins conflict with
\* the committed A.
C1_Witness ==
    \E a \in TxIds, b \in TxIds, i \in VarIds :
        /\ a # b /\ IsCommitted(a) /\ IsAborted(b)
        /\ Wrote(a, i) /\ Wrote(b, i)
        /\ CommitTs(a) > BeginTs(b)
        /\ output = <<AbortLine(b, "First-committer-wins conflict", 0, i, a)>>


\* ------------------------------------------------------------------- C2
CommittedIds == {t \in DOMAIN transactions : Status(t) = "Committed"}

\* The edges of the serialization graph between committed transactions.
CommittedEdges ==
    {e \in CommittedIds \X CommittedIds :
        e[1] \in DOMAIN graph /\ e[2] \in graph[e[1]]}

\* The committed transactions reachable from the set front along CommittedEdges.
RECURSIVE CommittedReach(_)
CommittedReach(front) ==
    LET next == front \cup {n \in CommittedIds :
                               \E m \in front : <<m, n>> \in CommittedEdges}
    IN IF next = front THEN front ELSE CommittedReach(next)

\* C2: in every reachable state the serialization graph restricted to
\* Committed transactions has no directed cycle: no committed transaction
\* reaches itself along one or more recorded edges between committed
\* transactions.
C2_CommittedAcyclic ==
    \A t \in CommittedIds :
        t \notin CommittedReach({n \in CommittedIds : <<t, n>> \in CommittedEdges})

\* Two committed transactions joined by a recorded edge, beside a transaction
\* the cycle check has just aborted or a second edge-bearing commit.
C2_Witness ==
    /\ CommittedEdges # {}
    /\ Cardinality(CommittedIds) = 2


\* ------------------------------------------------------------------- C3
\* reader has read variable i from the store while writer, still Active like
\* reader, has not written i yet: whatever writer writes to i, it writes then.
ReadBeforeWrite(reader, writer, i) ==
    /\ IsActive(reader) /\ IsActive(writer)
    /\ HasRead(reader, i)
    /\ ~Wrote(writer, i)

\* The write-skew pattern is complete: t1 wrote xb, t2 wrote xa, and no
\* variable is written by both.
SkewWritten(t1, t2, xa, xb) ==
    /\ t1 \in DOMAIN transactions /\ t2 \in DOMAIN transactions
    /\ Wrote(t1, xb) /\ Wrote(t2, xa)
    /\ \A i \in VarIds : ~(Wrote(t1, i) /\ Wrote(t2, i))

AbortShown(t) ==
    /\ Len(output) = 1
    /\ output[1].kind = "aborts"
    /\ output[1].tx = t

SkewOutcome(t1, t2, xa, xb) ==
    SkewWritten(t1, t2, xa, xb) =>
        /\ (~IsActive(t1) /\ IsActive(t2)) => IsCommitted(t1)
        /\ (~IsActive(t2) /\ IsActive(t1)) => IsCommitted(t2)
        /\ (~IsActive(t1) /\ ~IsActive(t2)) =>
               \/ IsCommitted(t1) /\ IsAborted(t2)
               \/ IsCommitted(t2) /\ IsAborted(t1)
        /\ \A t \in {t1, t2} :
               AbortShown(t) => output[1].reason = "Serialization cycle detected"

\* C3: write skew is excluded.  Whenever concurrent t1 and t2 are such that
\* t1 read xa before t2 wrote it and t2 read xb before t1 wrote it, then from
\* there on, once t1 has written xb and t2 has written xa with disjoint write
\* sets, the first of the two to end is Committed, the two never both commit,
\* and the second to end is Aborted with 'Serialization cycle detected'.
C3_WriteSkewExcluded ==
    \A t1 \in TxIds : \A t2 \in TxIds \ {t1} :
        \A xa \in TxnVars : \A xb \in TxnVars \ {xa} :
            [](ReadBeforeWrite(t1, t2, xa) =>
                 [](ReadBeforeWrite(t2, t1, xb) =>
                      []SkewOutcome(t1, t2, xa, xb)))

\* The second of two write-skewed transactions has just been aborted.
C3_Witness ==
    /\ IsCommitted("T1") /\ IsAborted("T2")
    /\ HasRead("T1", 1) /\ Wrote("T1", 2) /\ ~Wrote("T1", 1)
    /\ HasRead("T2", 2) /\ Wrote("T2", 1) /\ ~Wrote("T2", 2)
    /\ AbortShown("T2")
    /\ output[1].reason = "Serialization cycle detected"


\* ------------------------------------------------------------------- C4
\* Some single uptime interval of site s covers [from, to].
IntervalCovers(s, from, to) ==
    \E k \in 1..Len(sites[s].uptimeIntervals) :
        /\ sites[s].uptimeIntervals[k].start <= from
        /\ \/ ~sites[s].uptimeIntervals[k].hasEnd
           \/ sites[s].uptimeIntervals[k].end >= to

\* C4: continuity for reads.  For every Committed transaction T and every
\* variable xi in its read set, read from site s at version timestamp V, a
\* single uptime interval of s covers the window from V through begin_T.
C4_ReadContinuity ==
    \A t \in DOMAIN transactions :
        Status(t) = "Committed" =>
            \A i \in DOMAIN transactions[t].readSet :
                IntervalCovers(transactions[t].readSet[i].siteId,
                               transactions[t].readSet[i].timestamp,
                               BeginTs(t))

\* A transaction committed after reading, from site 1 after its recovery, a
\* version installed there since the recovery.
C4_Witness ==
    \E t \in DOMAIN transactions :
        /\ Status(t) = "Committed"
        /\ \E i \in DOMAIN transactions[t].readSet :
              /\ transactions[t].readSet[i].siteId = 1
              /\ transactions[t].readSet[i].timestamp > 0
        /\ Len(sites[1].uptimeIntervals) > 1


\* ------------------------------------------------------------------- C5
\* The directive just executed was a read served from the store.
StoreReadShown ==
    /\ Len(output) = 1
    /\ output[1].kind = "read"

\* C5: SI snapshot.  The value a read of xi by T returns from the store is
\* the value of a version of xi at the chosen site whose timestamp is
\* <= begin_T and is the greatest such timestamp at that site; no version
\* with timestamp > begin_T is returned.
C5_SnapshotRead ==
    StoreReadShown =>
        LET t == output[1].tx
            i == output[1].variable
            s == transactions[t].readSet[i].siteId
            versions == store[s][i]
        IN \E k \in 1..Len(versions) :
              /\ versions[k].value = output[1].value
              /\ versions[k].timestamp = transactions[t].readSet[i].timestamp
              /\ versions[k].timestamp <= BeginTs(t)
              /\ \A j \in 1..Len(versions) :
                    versions[j].timestamp <= BeginTs(t) =>
                        versions[j].timestamp <= versions[k].timestamp

\* A read returned the snapshot version although the chosen site already
\* holds a newer one, committed after the reader began.
C5_Witness ==
    /\ StoreReadShown
    /\ \E j \in 1..Len(store[transactions[output[1].tx].readSet[output[1].variable].siteId]
                            [output[1].variable]) :
          store[transactions[output[1].tx].readSet[output[1].variable].siteId]
               [output[1].variable][j].timestamp > BeginTs(output[1].tx)


\* ------------------------------------------------------------------- C6
\* Site s has recovered at least once; the start of its last uptime interval
\* is the time of its latest recovery.
HasRecovered(s) == Len(sites[s].uptimeIntervals) > 1
LastRecovery(s) == sites[s].uptimeIntervals[Len(sites[s].uptimeIntervals)].start

\* A commit has installed a version of xi at s since its latest recovery.
InstalledSinceRecovery(s, i) ==
    \E k \in 1..Len(store[s][i]) : store[s][i][k].timestamp > LastRecovery(s)

\* C6: recovery read-disable.  A read of replicated xi is never served from
\* a site s that has recovered unless a commit has installed a version of xi
\* at s since its latest recovery.
C6_RecoveryReadDisable ==
    (StoreReadShown /\ isReplicated(output[1].variable)) =>
        LET s == transactions[output[1].tx].readSet[output[1].variable].siteId
        IN HasRecovered(s) => InstalledSinceRecovery(s, output[1].variable)

\* Site 1 is Recovering with no version of x2 installed since, and a read
\* of x2 has just been served by site 2 instead.
C6_Witness ==
    /\ StoreReadShown
    /\ output[1].variable = 2
    /\ transactions[output[1].tx].readSet[2].siteId = 2
    /\ sites[1].state = "Recovering"
    /\ HasRecovered(1)
    /\ ~InstalledSinceRecovery(1, 2)


\* ------------------------------------------------------------------- C7
Touched(t, s) == s \in transactions[t].touchedSites

\* The lines printed by the step include 'T aborts (site s failed)'.
SiteFailedShown(t, s) ==
    \E k \in 1..Len(output') :
        /\ output'[k].kind = "aborts"
        /\ output'[k].tx = t
        /\ output'[k].reason = "site failed"
        /\ output'[k].site = s

\* C7: touched-site failure.  When fail(s) is processed while Active T has s
\* in its touched sites, T is Aborted by that directive, which prints
\* 'T aborts (site s failed)'; and no directive (a recovery of s or end(T)
\* included) changes the status of an Aborted transaction.
C7_TouchedSiteFailure ==
    [][/\ \A t \in TxIds, s \in SiteIds :
             (IsActive(t) /\ Touched(t, s) /\ Fail(s)) =>
                 /\ transactions'[t].status = "Aborted"
                 /\ SiteFailedShown(t, s)
       /\ \A t \in TxIds :
             IsAborted(t) => transactions'[t].status = "Aborted"]_vars

\* T1, aborted by the failure of a site it touched, has been ended after
\* that site recovered, and is still Aborted.
C7_Witness ==
    /\ IsAborted("T1")
    /\ \E s \in SiteIds : Touched("T1", s) /\ HasRecovered(s)
    /\ Len(output) = 1
    /\ output[1].kind = "is already"
    /\ output[1].tx = "T1"
    /\ output[1].other = "Aborted"


\* ------------------------------------------------------------------- C8
S2Script ==
    <<Directive("begin", "T1", 0, 0, 0),
      Directive("read", "T1", 2, 0, 0),
      Directive("fail", "", 0, 0, 2),
      Directive("end", "T1", 0, 0, 0)>>

\* The transcript executed so far is the first k directives of script.
Ran(script, k) == history = SubSeq(script, 1, k)

\* C8 as stated: in the run S2 the read returns 20, fail(2) aborts T1 with
\* reason 'site 2 failed', and T1 does not commit.
C8_Original ==
    /\ Ran(S2Script, 2) =>
           output = <<Line("read", "T1", 2, 20, "", 0, "")>>
    /\ Ran(S2Script, 3) =>
           /\ IsAborted("T1")
           /\ output = <<AbortLine("T1", "site failed", 2, 0, "")>>
    /\ Ran(S2Script, 4) => ~IsCommitted("T1")

\* C8: in the run S2 the read of x2 returns 20 and is served by site 1, the
\* first available site in ascending order; fail(2) prints nothing and leaves
\* T1 Active; end(T1) commits T1.
C8_ScenarioS2 ==
    /\ Ran(S2Script, 2) =>
           /\ output = <<Line("read", "T1", 2, 20, "", 0, "")>>
           /\ transactions["T1"].readSet[2].siteId = 1
           /\ transactions["T1"].touchedSites = {1}
    /\ Ran(S2Script, 3) =>
           /\ IsActive("T1")
           /\ output = <<>>
           /\ sites[2].state = "Failed"
    /\ Ran(S2Script, 4) =>
           /\ IsCommitted("T1")
           /\ output = <<Line("commits", "T1", 0, 0, "", 0, "")>>

C8_Witness == Ran(S2Script, 4) /\ IsCommitted("T1") /\ sites[2].state = "Failed"

\* ------------------------------------------------------------------- C9
S5Script ==
    <<Directive("fail", "", 0, 0, 2),
      Directive("begin", "T1", 0, 0, 0),
      Directive("read", "T1", 1, 0, 0),
      Directive("end", "T1", 0, 0, 0)>>

LatestCommittedValue(s, i) ==
    LET versions == store[s][i]
        k == CHOOSE k \in 1..Len(versions) :
                 \A j \in 1..Len(versions) :
                     versions[j].timestamp <= versions[k].timestamp
    IN versions[k].value

\* C10: non-replicated variables stay readable during recovery.  While the
\* home site s of non-replicated xi is Recovering, a read of xi by an Active
\* transaction that began after the recovery of s (and has not written xi
\* itself) succeeds and returns the latest committed value of xi.
C10_NonReplicatedReadable ==
    [][\A t \in TxIds, i \in VarIds :
          (/\ ~isReplicated(i)
           /\ IsActive(t)
           /\ ~Wrote(t, i)
           /\ sites[getSiteForVariable(i)].state = "Recovering"
           /\ BeginTs(t) > LastRecovery(getSiteForVariable(i))
           /\ Read(t, i))
          => output' = <<Line("read", t, i,
                              LatestCommittedValue(getSiteForVariable(i), i),
                              "", 0, "")>>]_vars


\* ------------------------------------------------------------------ C11
\* C11: monotone versions.  For every site and every variable it holds, the
\* version list starts at timestamp 0, its timestamps strictly increase along
\* the list, and none exceeds the current clock value.
C11_MonotoneVersions ==
    \A s \in DOMAIN store : \A i \in DOMAIN store[s] :
        /\ Len(store[s][i]) >= 1
        /\ store[s][i][1].timestamp = 0
        /\ \A k \in 1..(Len(store[s][i]) - 1) :
              store[s][i][k].timestamp < store[s][i][k + 1].timestamp
        /\ \A k \in 1..Len(store[s][i]) : store[s][i][k].timestamp <= currentTime

\* Two commits have installed versions of one variable at one site, and a
\* site that was failed during a commit holds fewer versions of it.
C11_Witness ==
    \E s \in DOMAIN store : \E i \in DOMAIN store[s] :
        /\ Len(store[s][i]) = 3
        /\ \E r \in DOMAIN store : i \in DOMAIN store[r] /\ Len(store[r][i]) < 3


\* ------------------------------------------------------------------ C12
IsTerminal(t) == IsCommitted(t) \/ IsAborted(t)

\* C12: terminal transaction states.  No directive changes the record of a
\* transaction that is Committed or Aborted: its status, begin and commit
\* timestamps, read set, write set and touched sites all stay as they are.
C12_TerminalStates ==
    [][\A t \in TxIds :
          IsTerminal(t) =>
              /\ t \in DOMAIN transactions'
              /\ transactions'[t].status = transactions[t].status
              /\ transactions'[t].beginTimestamp = transactions[t].beginTimestamp
              /\ transactions'[t].commitTimestamp = transactions[t].commitTimestamp
              /\ transactions'[t].readSet = transactions[t].readSet
              /\ transactions'[t].writeSet = transactions[t].writeSet
              /\ transactions'[t].touchedSites = transactions[t].touchedSites]_vars

\* A site that Committed T1 touched has failed since, and T1 is still
\* Committed.
C12_Witness ==
    /\ IsCommitted("T1")
    /\ \E s \in SiteIds : Touched("T1", s) /\ sites[s].state = "Failed"


\* ------------------------------------------------------------------ C13
\* The value T has buffered for xi.
BufferedValue(t, i) ==
    LET writeSet == transactions[t].writeSet
        ks == {k \in 1..Len(writeSet) : writeSet[k].variableId = i}
    IN writeSet[CHOOSE k \in ks : \A j \in ks : j <= k].value

WritesTo(t, i) == \E v \in OwnValues : Write(t, i, v)

\* C13: read-your-own-write.  A write W(T, xi, v) leaves v buffered for xi;
\* the buffered value stays as it is until T writes xi again or stops being
\* Active; and a read R(T, xi) by the Active T that has written xi prints the
\* buffered value as read from the write set and leaves T's record (read
\* set and touched sites included), the read history and the serialization
\* graph unchanged, whether or not a site holding xi is available.
C13_ReadOwnWrite ==
    [][\A t \in TxIds, i \in VarIds :
          /\ \A v \in OwnValues :
                (IsActive(t) /\ Write(t, i, v)) =>
                    /\ Wrote(t, i)'
                    /\ BufferedValue(t, i)' = v
          /\ (IsActive(t) /\ Wrote(t, i) /\ ~WritesTo(t, i) /\ IsActive(t)') =>
                 /\ Wrote(t, i)'
                 /\ BufferedValue(t, i)' = BufferedValue(t, i)
          /\ (IsActive(t) /\ Wrote(t, i) /\ Read(t, i)) =>
                 /\ output' = <<Line("read from write set", t, i,
                                     BufferedValue(t, i), "", 0, "")>>
                 /\ transactions' = transactions
                 /\ readHistory' = readHistory
                 /\ graph' = graph]_vars

\* T1 wrote x1 while its home site 1 was Failed, so with no target site, and
\* has just read the value back.
C13_Witness ==
    /\ IsActive("T1")
    /\ Wrote("T1", 1)
    /\ BufferedValue("T1", 1) = 102
    /\ sites[1].state = "Failed"
    /\ output = <<Line("read from write set", "T1", 1, 102, "", 0, "")>>


\* ------------------------------------------------------------------ C14
Tick == currentTime' = currentTime + 1
NoTick == currentTime' = currentTime

\* C14: logical clock.  No directive decreases the clock; a begin that
\* creates a transaction, an end that commits, every fail and every recover
\* advance it by exactly one; every read and every write leave it unchanged.
\* (A step that does not advance the clock by one is none of the former, and
\* a step that changes the clock is none of the latter.)
C14_LogicalClock ==
    [][/\ currentTime' >= currentTime
       /\ Tick \/ /\ \A t \in TxIds :
                        /\ ~(t \notin DOMAIN transactions /\ Begin(t))
                        /\ ~(IsActive(t) /\ IsCommitted(t)' /\ End(t))
                  /\ \A s \in SiteIds : ~Fail(s) /\ ~Recover(s)
       /\ NoTick \/ \A t \in TxIds, i \in VarIds :
                        /\ ~Read(t, i)
                        /\ \A v \in Values \cup OwnValues : ~Write(t, i, v)]_vars

\* After begin, read, end (commit), fail and recover the clock, which
\* started at 1, reads 5: four of the five directives advanced it.
C14_Witness ==
    /\ steps = 5
    /\ currentTime = 5
    /\ \E t \in TxIds : IsCommitted(t) /\ transactions[t].readSet # EmptyMap
    /\ \E s \in SiteIds : sites[s].state = "Recovering"


\* ------------------------------------------------------------------ C15
\* The positions of the open (end-less) uptime intervals of site s.
OpenIntervals(s) ==
    {k \in 1..Len(sites[s].uptimeIntervals) : ~sites[s].uptimeIntervals[k].hasEnd}

\* C15: uptime-interval invariant.  A site that is Up or Recovering has
\* exactly one open uptime interval, the last of its list; a Failed site has
\* none.
C15_UptimeIntervals ==
    \A s \in DOMAIN sites :
        IF sites[s].state = "Failed"
        THEN OpenIntervals(s) = {}
        ELSE /\ Len(sites[s].uptimeIntervals) >= 1
             /\ OpenIntervals(s) = {Len(sites[s].uptimeIntervals)}

\* One site has failed, recovered and failed again while another is
\* Recovering after its first failure.
C15_Witness ==
    /\ \E s \in DOMAIN sites :
          sites[s].state = "Failed" /\ Len(sites[s].uptimeIntervals) = 2
    /\ \E s \in DOMAIN sites :
          sites[s].state = "Recovering" /\ Len(sites[s].uptimeIntervals) = 2


\* ------------------------------------------------------------------ C16
ReadEnabled(s, i) == sites[s].replicatedReadEnabled[i]

\* The step installs a version of xi at site s.
Installs(s, i) == Len(store'[s][i]) > Len(store[s][i])

\* C16: re-admission after recovery.  A recovery leaves every replicated
\* variable of the site read-disabled.  While site s is Recovering, some
\* replicated variable is still disabled, and a step that does not fail s
\* leaves the flag of each replicated xi true exactly if it was true already
\* or the step (a commit) installs a version of xi at s; s is Up after the
\* step exactly if that leaves every flag true, and Recovering otherwise.
C16_Readmission ==
    [][\A s \in SiteIds :
          /\ (sites[s].state = "Failed" /\ sites'[s].state # "Failed") =>
                 /\ sites'[s].state = "Recovering"
                 /\ \A i \in ReplicatedVars : ~ReadEnabled(s, i)'
          /\ sites[s].state = "Recovering" =>
                 \E i \in ReplicatedVars : ~ReadEnabled(s, i)
          /\ (sites[s].state = "Recovering" /\ sites'[s].state # "Failed") =>
                 /\ \A i \in ReplicatedVars :
                       ReadEnabled(s, i)' = (ReadEnabled(s, i) \/ Installs(s, i))
                 /\ sites'[s].state \in {"Recovering", "Up"}
                 /\ (sites'[s].state = "Up") =
                        (\A i \in ReplicatedVars : ReadEnabled(s, i)')]_vars

\* Site 1 is Up again after a recovery: two commits at different times
\* have installed x2 and x4 there since.
C16_Witness ==
    /\ sites[1].state = "Up"
    /\ HasRecovered(1)
    /\ \E k2 \in 1..Len(store[1][2]), k4 \in 1..Len(store[1][4]) :
          /\ store[1][2][k2].timestamp > LastRecovery(1)
          /\ store[1][4][k4].timestamp > LastRecovery(1)
          /\ store[1][2][k2].timestamp # store[1][4][k4].timestamp


\* ------------------------------------------------------------------ C17
NoSiteLine(t, i) == Line("cannot read", t, i, 0, "no eligible site", 0, "")

\* A run in which the home site of x1 is Failed when T1 reads x1.
NoSiteScript ==
    <<Directive("fail", "", 0, 0, 1),
      Directive("begin", "T1", 0, 0, 0),
      Directive("read", "T1", 1, 0, 0),
      Directive("end", "T1", 0, 0, 0)>>

WriteTargets(t, i) ==
    LET writeSet == transactions[t].writeSet
        ks == {k \in 1..Len(writeSet) : writeSet[k].variableId = i}
    IN writeSet[CHOOSE k \in ks : \A j \in ks : j <= k].targetSites

\* C18: atomic commit.  In the end(T) step that commits T, the commit
\* timestamp c is the clock value of that step, and for every site s and
\* variable xi stored there: if T wrote xi and s is one of the write's target
\* sites and is not Failed, the version list of xi at s gains exactly the
\* version (c, buffered value) at its end; every other version list is left
\* as it was.
C18_AtomicCommit ==
    [][\A t \in TxIds :
          (IsActive(t) /\ IsCommitted(t)' /\ End(t)) =>
              LET c == CommitTs(t)'
              IN /\ c = currentTime
                 /\ DOMAIN store' = DOMAIN store
                 /\ \A s \in DOMAIN store :
                       /\ DOMAIN store'[s] = DOMAIN store[s]
                       /\ \A i \in DOMAIN store[s] :
                             IF /\ Wrote(t, i)
                                /\ s \in WriteTargets(t, i)
                                /\ sites[s].state # "Failed"
                             THEN store'[s][i] =
                                      Append(store[s][i],
                                             [timestamp |-> c,
                                              value |-> BufferedValue(t, i)])
                             ELSE store'[s][i] = store[s][i]]_vars

\* T1 committed x1 and x2 with different values: three lists (x1 at site 1,
\* x2 at both sites) end with T1's commit timestamp.
C18_Witness ==
    /\ IsCommitted("T1")
    /\ output = <<Line("commits", "T1", 0, 0, "", 0, "")>>
    /\ Wrote("T1", 1) /\ Wrote("T1", 2)
    /\ BufferedValue("T1", 1) # BufferedValue("T1", 2)
    /\ store[1][1][Len(store[1][1])] =
           [timestamp |-> CommitTs("T1"), value |-> BufferedValue("T1", 1)]
    /\ \A s \in SiteIds :
           store[s][2][Len(store[s][2])] =
               [timestamp |-> CommitTs("T1"), value |-> BufferedValue("T1", 2)]


\* ------------------------------------------------------------------ C19
\* The values a store read can print: initial and written ones.
StoredValues == {i * 10 : i \in VarIds} \cup Values

\* The line of a successful store read of xi by T returning v.
ReadLine(t, i, v) == Line("read", t, i, v, "", 0, "")

\* Snapshot stability as a statement about whole behaviours: once a store
\* read of xi by T has returned v, every later store read of xi by T returns v.
SnapshotStabilityOverRuns ==
    \A t \in TxIds, i \in RecVars, v \in StoredValues :
        [](output = <<ReadLine(t, i, v)>> =>
               [](\A w \in StoredValues :
                      output = <<ReadLine(t, i, w)>> => w = v))

\* The value of the version T's read-set entry for xi names (site and
\* version timestamp of T's latest store read of xi); -1 if there is none.
SnapshotValue(t, i) ==
    LET entry == transactions[t].readSet[i]
        versions == store[entry.siteId][i]
        ks == {k \in 1..Len(versions) :
                  versions[k].timestamp = entry.timestamp}
    IN IF ks = {} THEN -1 ELSE versions[CHOOSE k \in ks : TRUE].value

\* C19: snapshot stability.  Every successful store read of xi by T returns
\* the value of the version its read-set entry then names, and from T's first
\* store read of xi on that value never changes, whatever step is taken
\* (commits, failures, recoveries, further reads served by any site): so any
\* two successful store reads of xi by T return the same value.
C19_SnapshotStability ==
    [][/\ \A t \in DOMAIN transactions :
             \A i \in DOMAIN transactions[t].readSet :
                 /\ HasRead(t, i)'
                 /\ SnapshotValue(t, i)' = SnapshotValue(t, i)
       /\ (Len(output') = 1 /\ output'[1].kind = "read") =>
              \A t \in TxIds, i \in VarIds :
                  (output'[1].tx = t /\ output'[1].variable = i /\ Read(t, i)) =>
                      /\ HasRead(t, i)'
                      /\ output'[1].value = SnapshotValue(t, i)']_vars

\* T1 read x2 at site 2 while site 1 was Recovering, T2 then committed a new
\* x2 at both sites, and T1 has now read x2 again, served by site 1, with the
\* initial value.
C19_Witness ==
    /\ IsActive("T1") /\ IsCommitted("T2")
    /\ transactions["T1"].writeSet = <<>>
    /\ DOMAIN transactions["T1"].readSet = {2}
    /\ transactions["T1"].touchedSites = {1, 2}
    /\ transactions["T1"].readSet[2].siteId = 1
    /\ output = <<ReadLine("T1", 2, 20)>>
    /\ \A s \in SiteIds : store[s][2][Len(store[s][2])].value = 101
    /\ CommitTs("T2") > BeginTs("T1")


\* ------------------------------------------------------------------ C20
\* C20: no error escapes directive processing.  Whatever site or variable
\* number a directive carries, executing it never throws an Error out of the
\* loop of Driver.run.
C20_NoErrorEscapes == ~Raised


\* ------------------------------------------------------------------ C21
\* The state of a new instance, in the claim's words.
Fresh ==
    /\ DOMAIN transactions = {}
    /\ currentTime = 1
    /\ DOMAIN sites = SiteIds
    /\ \A s \in SiteIds :
           /\ sites[s].state = "Up"
           /\ Len(sites[s].uptimeIntervals) = 1
           /\ sites[s].uptimeIntervals[1].start = 0
           /\ ~sites[s].uptimeIntervals[1].hasEnd
           /\ \A i \in DOMAIN sites[s].replicatedReadEnabled :
                  sites[s].replicatedReadEnabled[i]
           /\ \A i \in DOMAIN store[s] :
                  store[s][i] = <<[timestamp |-> 0, value |-> 10 * i]>>
    /\ DOMAIN graph = {}
    /\ DOMAIN lastWriter = {}
    /\ DOMAIN writeHistory = {}
    /\ DOMAIN readHistory = {}

\* A run that commits a write, fails site 1 and then resets.
ResetScript ==
    <<Directive("begin", "T1", 0, 0, 0),
      Directive("write", "T1", 2, 101, 0),
      Directive("end", "T1", 0, 0, 0),
      Directive("reset", "", 0, 0, 0)>>

\* C21: reset restores the initial state.  Whatever directives preceded it,
\* the state after a reset directive is the state of a new instance: no
\* transactions, every site Up with one open interval starting at 0 and
\* every flag true, every variable holding only its initial version, empty
\* graph, histories and last-writer table, clock 1.  Every directive reads
\* nothing but this state, so what follows behaves as from a new instance.
C21_ResetRestoresInitial ==
    [][(Len(history') = Len(history) + 1
        /\ history'[Len(history')].type = "reset") => Fresh']_vars

C21_Witness ==
    /\ Ran(ResetScript, 4)
    /\ Fresh


\* ------------------------------------------------------------------ C22
\* The output is that of a dump() directive.
DumpShown == Len(output) >= 1 /\ output[Len(output)].kind = "summary"

\* dump() printed a line for xi.
DumpLineFor(i) ==
    \E k \in 1..Len(output) : output[k].kind = "dump" /\ output[k].variable = i

\* The most recently committed value of xi: the value of the version with
\* the greatest timestamp among the versions of xi at all sites.
CommittedValue(i) ==
    LET holders == {s \in SiteIds : i \in DOMAIN store[s]}
        all == UNION {{store[s][i][k] : k \in 1..Len(store[s][i])} :
                      s \in holders}
    IN (CHOOSE ver \in all : \A w \in all : w.timestamp <= ver.timestamp).value

\* C22: dump() completeness.  dump() prints a line for xi if and only if
\* the most recently committed value of xi differs from 10*i.
C22_DumpCompleteness ==
    DumpShown =>
        \A i \in VarIds : DumpLineFor(i) <=> CommittedValue(i) # 10 * i


\* ------------------------------------------------------------------ C23
\* C23: dump() 'at all sites'.  Whenever dump() prints 'xN: v at all sites',
\* the latest version of xN at every site holding it has value v.
C23_DumpAtAllSites ==
    DumpShown =>
        \A k \in 1..Len(output) :
            (output[k].kind = "dump" /\ output[k].other = "at all sites") =>
                \A s \in getSitesForVariable(store, output[k].variable) :
                    LatestCommittedValue(s, output[k].variable) = output[k].value


\* ------------------------------------------------------------------ C24
\* A site t touched is Failed.
TouchedSiteDown(t) ==
    \E s \in transactions[t].touchedSites : sites[s].state = "Failed"

\* Some variable t wrote has a committed writer that committed after t began.
HasFcwConflict(t) == \E a \in TxIds, i \in VarIds : FcwCase(a, t, i)

\* The serialization check of end(t) fails.
CycleCheckFails(t) ==
    ~checkSerializability(graph, lastWriter, readHistory, t, transactions[t])

\* What end(t) prints when its checks are applied in the stated order:
\* the kind of the line and the abort reason.
EndVerdict(t) ==
    IF TouchedSiteDown(t) THEN <<"aborts", "site failure after access">>
    ELSE IF HasUntargetedWrite(t) THEN <<"aborts", "no available site for write">>
    ELSE IF HasFcwConflict(t) THEN <<"aborts", "First-committer-wins conflict">>
    ELSE IF CycleCheckFails(t) THEN <<"aborts", "Serialization cycle detected">>
    ELSE <<"commits", "">>

\* C24: abort-reason precedence.  end(T) on an Active T prints one line, and
\* it is the abort with the reason of the first failing check in the order
\* touched-site availability, write-target availability, first-committer-
\* wins, serialization cycle, or 'T commits' when none fails; with both an
\* FCW conflict and a cycle the reason is the FCW one.
C24_AbortReasonPrecedence ==
    [][\A t \in TxIds :
          (/\ t \in DOMAIN transactions
           /\ IsActive(t)
           /\ Len(output') = 1
           /\ output'[1].tx = t
           /\ output'[1].kind \in {"aborts", "commits"}
           /\ End(t)) =>
              <<output'[1].kind, output'[1].reason>> = EndVerdict(t)]_vars

\* T2 read x2, T1 then committed a write of x2 after T2 began, and T2, which
\* wrote x2 as well (an FCW conflict, and the cycle T2 -rw-> T1 -ww-> T2),
\* was aborted by end(T2) with the FCW reason.
C24_Witness ==
    /\ IsCommitted("T1") /\ IsAborted("T2")
    /\ Wrote("T1", 2) /\ Wrote("T2", 2)
    /\ HasRead("T2", 2)
    /\ transactions["T2"].readSet[2].timestamp < CommitTs("T1")
    /\ CommitTs("T1") > BeginTs("T2")
    /\ AbortShown("T2")
    /\ output[1].reason = "First-committer-wins conflict"


\* ------------------------------------------------------------------ C25
\* The value a store read shows is the initial value of the variable or the
\* value a Committed transaction wrote to it.
ReadsCommitted ==
    StoreReadShown =>
        \/ output[1].value = 10 * output[1].variable
        \/ \E a \in DOMAIN transactions :
               /\ IsCommitted(a)
               /\ Wrote(a, output[1].variable)
               /\ BufferedValue(a, output[1].variable) = output[1].value

\* C25: writes are buffered.  W(T, xi, v) on an Active T leaves the version
\* store, the sites, the clock, last_writer, the serialization graph and
\* every other transaction unchanged, and changes of T only the write set
\* and the touched sites; and a store read never shows a value that only
\* transactions not yet Committed have written.
C25_WritesBuffered ==
    [][/\ \A t \in TxIds, i \in VarIds, v \in Values \cup OwnValues :
             (/\ t \in DOMAIN transactions
              /\ IsActive(t)
              /\ output' = <<>>
              /\ Write(t, i, v)) =>
                 /\ store' = store
                 /\ sites' = sites
                 /\ currentTime' = currentTime
                 /\ lastWriter' = lastWriter
                 /\ graph' = graph
                 /\ \A u \in DOMAIN transactions \ {t} :
                        transactions'[u] = transactions[u]
                 /\ IsActive(t)'
                 /\ BeginTs(t)' = BeginTs(t)
                 /\ transactions'[t].commitTimestamp =
                        transactions[t].commitTimestamp
                 /\ transactions'[t].readSet = transactions[t].readSet
                 /\ Wrote(t, i)' /\ BufferedValue(t, i)' = v
       /\ ReadsCommitted']_vars

\* T1 is Active with x2 = 102 buffered, and T2's read of x2 shows 20.
C25_Witness ==
    /\ {"T1", "T2"} \subseteq DOMAIN transactions
    /\ IsActive("T1") /\ Wrote("T1", 2) /\ BufferedValue("T1", 2) = 102
    /\ output = <<ReadLine("T2", 2, 20)>>
    /\ \A s \in SiteIds : Len(store[s][2]) = 1


\* ------------------------------------------------------------------ C26
\* C26: write targets are fixed at write time.  A site that is Failed when T
\* issues W(T, xi, v) is not among the targets recorded with that write; the
\* recorded targets change only by another W(T, xi, ..); and the commit of T
\* adds no version of xi at a site outside the recorded targets, whatever
\* the state of that site at end(T).
C26_TargetsFixedAtWrite ==
    [][\A t \in DOMAIN transactions, i \in VarIds :
          /\ \A v \in Values \cup OwnValues :
                 (IsActive(t) /\ output' = <<>> /\ Write(t, i, v)) =>
                     /\ Wrote(t, i)'
                     /\ \A s \in SiteIds :
                            sites[s].state = "Failed" => s \notin WriteTargets(t, i)'
          /\ Wrote(t, i) =>
                 /\ Wrote(t, i)'
                 /\ \/ WriteTargets(t, i)' = WriteTargets(t, i)
                    \/ IsActive(t) /\ WritesTo(t, i)
                 /\ (IsActive(t) /\ IsCommitted(t)') =>
                        \A s \in SiteIds \ WriteTargets(t, i) :
                            i \in DOMAIN store[s] => store'[s][i] = store[s][i]]_vars

\* T1 wrote x2 while site 1 was Failed and committed after site 1 had
\* recovered: site 2 has T1's version of x2, site 1 has none.
C26_Witness ==
    /\ "T1" \in DOMAIN transactions
    /\ IsCommitted("T1") /\ Wrote("T1", 2)
    /\ WriteTargets("T1", 2) = {2}
    /\ HasRecovered(1) /\ sites[1].state = "Recovering"
    /\ LastRecovery(1) < CommitTs("T1")
    /\ \E k \in 1..Len(store[2][2]) : store[2][2][k].timestamp = CommitTs("T1")
    /\ \A k \in 1..Len(store[1][2]) : store[1][2][k].timestamp # CommitTs("T1")


\* ------------------------------------------------------------------ C27
\* Site s satisfies the conditions of the claim for a read of xi at begin
\* timestamp b: available, allowed to read xi, holding a version with
\* timestamp <= b from whose timestamp through b it was continuously up.
RouteEligible(s, i, b) ==
    /\ sites[s].state # "Failed"
    /\ i \in DOMAIN store[s]
    /\ sites[s].state = "Recovering" => ReadEnabled(s, i)
    /\ \E k \in 1..Len(store[s][i]) :
           /\ store[s][i][k].timestamp <= b
           /\ IntervalCovers(s, store[s][i][k].timestamp, b)

\* C27: deterministic read routing.  A read of a replicated xi by an Active
\* T that has not written xi is served by the lowest-numbered site
\* satisfying the conditions at begin_T, and prints 'cannot read' exactly
\* when no site satisfies them.
C27_DeterministicRouting ==
    [][\A t \in DOMAIN transactions, i \in ReplicatedVars :
          (/\ IsActive(t) /\ ~Wrote(t, i)
           /\ Len(output') = 1
           /\ output'[1].tx = t /\ output'[1].variable = i
           /\ Read(t, i)) =>
              LET eligible == {s \in SiteIds : RouteEligible(s, i, BeginTs(t))}
              IN IF eligible = {} THEN output'[1].kind = "cannot read"
                 ELSE /\ output'[1].kind = "read"
                      /\ transactions'[t].readSet[i].siteId \in eligible
                      /\ \A s \in eligible :
                             transactions'[t].readSet[i].siteId <= s]_vars

\* A read of x2 was served by site 2 while the lower-numbered site 1 was
\* available (Recovering) but not allowed to read x2.
C27_Witness ==
    /\ StoreReadShown
    /\ output[1].variable = 2
    /\ transactions[output[1].tx].readSet[2].siteId = 2
    /\ sites[1].state = "Recovering"
    /\ ~ReadEnabled(1, 2)
    /\ sites[2].state = "Up"


\* ------------------------------------------------------------------ C28
\* C28: fail(s) aborts only touchers.  Processing fail(s) leaves the record
\* of every transaction that has not touched s unchanged: its status stays
\* what it was (an Active one stays Active) and its read set and write set
\* are unchanged.
C28_FailAbortsOnlyTouchers ==
    [][\A s \in SiteIds :
          (currentTime' = currentTime + 1 /\ sites'[s].state = "Failed"
           /\ Fail(s)) =>
              \A t \in DOMAIN transactions :
                  ~Touched(t, s) =>
                      /\ Status(t)' = Status(t)
                      /\ transactions'[t].readSet = transactions[t].readSet
                      /\ transactions'[t].writeSet = transactions[t].writeSet]_vars

\* fail(1) has just aborted T1, which touched site 1, while T2, whose write
\* of x2 targets site 2 only, is still Active.
C28_Witness ==
    /\ {"T1", "T2"} \subseteq DOMAIN transactions
    /\ output = <<AbortLine("T1", "site failed", 1, 0, "")>>
    /\ IsAborted("T1") /\ Touched("T1", 1)
    /\ IsActive("T2") /\ ~Touched("T2", 1) /\ Touched("T2", 2)
    /\ Wrote("T2", 2)


\* ------------------------------------------------------------------ C29
\* C29: aborted transactions are purged for good.  In every state where T is
\* Aborted, the serialization graph has no node for T and no edge into T,
\* and the read history and the write history have no entry for T.
C29_AbortedPurged ==
    \A t \in DOMAIN transactions :
        IsAborted(t) =>
            /\ t \notin DOMAIN graph
            /\ \A n \in DOMAIN graph : t \notin graph[n]
            /\ t \notin DOMAIN readHistory
            /\ t \notin DOMAIN writeHistory

\* T1 read x2 and was aborted; T2 then wrote x2 and has just committed (its
\* serialization check ran after the purge of T1's read history).
C29_Witness ==
    /\ {"T1", "T2"} \subseteq DOMAIN transactions
    /\ IsAborted("T1") /\ HasRead("T1", 2)
    /\ IsCommitted("T2") /\ Wrote("T2", 2)
    /\ output = <<Line("commits", "T2", 0, 0, "", 0, "")>>
    /\ "T2" \in DOMAIN graph


\* ------------------------------------------------------------------ C30
\* The nodes of g reachable from the set front along one or more edges.
RECURSIVE GraphReach(_, _)
GraphReach(g, front) ==
    LET next == front \cup UNION {g[m] : m \in front \cap DOMAIN g}
    IN IF next = front THEN front ELSE GraphReach(g, next)

\* t lies on a directed cycle of g.
OnCycle(g, t) == t \in DOMAIN g /\ t \in GraphReach(g, g[t])

\* The serialization graph at the moment end(t) takes its verdict: the
\* recorded graph with the edges the check of t has added.
GraphAtEnd(t) ==
    serializabilityGraph(graph, lastWriter, readHistory, t, transactions[t])

\* C30: cycle aborts are justified.  Whenever end(T) aborts T with
\* 'Serialization cycle detected', T itself lies on a directed cycle of the
\* serialization graph at that moment.
C30_CycleAbortsJustified ==
    [][\A t \in DOMAIN transactions :
          (/\ Status(t) = "Active"
           /\ Len(output') = 1
           /\ output'[1].kind = "aborts"
           /\ output'[1].tx = t
           /\ output'[1].reason = "Serialization cycle detected"
           /\ End(t)) =>
              OnCycle(GraphAtEnd(t), t)]_vars


\* ------------------------------------------------------------------ C31
\* C31: user errors are state no-ops.  A begin(T) for a name that already
\* exists, and a read, write or end naming a transaction that was never
\* begun, leave the clock, the transaction table, the version store, the site
\* table and the serialization graph unchanged.
C31_UserErrorsNoOps ==
    [][\A t \in TxIds :
          /\ (t \in DOMAIN transactions /\ Begin(t)) =>
                 UNCHANGED <<currentTime, transactions, store, sites, graph>>
          /\ (/\ t \notin DOMAIN transactions
              /\ \/ End(t)
                 \/ \E i \in VarIds : Read(t, i)
                 \/ \E i \in VarIds, v \in Values : Write(t, i, v)) =>
                 UNCHANGED <<currentTime, transactions, store, sites, graph>>]_vars

\* begin(T1) has just been refused for the Committed T1, after a commit that
\* installed a version.
C31_Witness ==
    /\ output = <<Line("already exists", "T1", 0, 0, "", 0, "")>>
    /\ IsCommitted("T1")
    /\ \E i \in VarIds : Wrote("T1", i)


\* ------------------------------------------------------------------ C32
\* C32: idempotent fail and recover.  fail(s) on a site that is already
\* Failed, and recover(s) on a site that is Up or Recovering, leave that
\* site's state, its uptime intervals and its read-enabled flags unchanged
\* and abort no transaction.
C32_IdempotentFailRecover ==
    [][\A s \in SiteIds :
          (\/ sites[s].state = "Failed" /\ Fail(s)
           \/ sites[s].state # "Failed" /\ Recover(s)) =>
              /\ sites'[s].state = sites[s].state
              /\ sites'[s].uptimeIntervals = sites[s].uptimeIntervals
              /\ sites'[s].replicatedReadEnabled = sites[s].replicatedReadEnabled
              /\ \A t \in DOMAIN transactions : Status(t)' = Status(t)]_vars

\* begin(T1), fail(1), fail(1): the third directive advanced the clock past
\* the end of site 1's interval while T1 stayed Active.
C32_Witness ==
    /\ steps = 3 /\ currentTime = 4
    /\ IsActive("T1") /\ DOMAIN transactions = {"T1"}
    /\ sites[1].state = "Failed"
    /\ sites[1].uptimeIntervals[Len(sites[1].uptimeIntervals)].end = 2


\* ------------------------------------------------------------------ C33
\* The state changes a site may make.
SiteTransitions ==
    {<<"Up", "Failed">>, <<"Recovering", "Failed">>,
     <<"Failed", "Recovering">>, <<"Recovering", "Up">>}

\* C33: site state machine.  A site's state only ever changes Up to Failed,
\* Recovering to Failed, Failed to Recovering, or Recovering to Up; and
\* recover(s) on a Failed site opens a new interval starting at the current
\* clock value and sets every replicated variable at s read-disabled.
C33_SiteStateMachine ==
    [][\A s \in SiteIds :
          /\ sites'[s].state # sites[s].state =>
                 <<sites[s].state, sites'[s].state>> \in SiteTransitions
          /\ (sites[s].state = "Failed" /\ Recover(s)) =>
                 LET before == sites[s].uptimeIntervals
                     after == sites'[s].uptimeIntervals
                 IN /\ sites'[s].state = "Recovering"
                    /\ Len(after) = Len(before) + 1
                    /\ SubSeq(after, 1, Len(before)) = before
                    /\ after[Len(after)].start = currentTime
                    /\ ~after[Len(after)].hasEnd
                    /\ \A i \in VarIds :
                           (i % 2 = 0 /\ s \in DOMAIN store
                            /\ i \in DOMAIN store[s]) =>
                               ~sites'[s].replicatedReadEnabled[i]]_vars

\* Site 1 has failed, recovered and come back Up through commits to both of
\* its replicated variables.
C33_Witness ==
    /\ sites[1].state = "Up"
    /\ Len(sites[1].uptimeIntervals) = 2
    /\ \A i \in ReplicatedVars : sites[1].replicatedReadEnabled[i]


\* ------------------------------------------------------------------ C34
\* The timestamp of the last version stored for variable i at site s.
LastTimestamp(s, i) == store[s][i][Len(store[s][i])].timestamp

\* C34: add_version rejects out-of-order timestamps.  Calling
\* add_version(s, i, ts, v) with ts <= the timestamp of the last version
\* already stored for (s, i) fails with an error and leaves the version list
\* unchanged.
C34_RejectsOutOfOrder ==
    [][\A s \in SiteIds, i \in VarIds, ts \in VersionTimestamps, v \in Values :
          (/\ hasVariable(store, s, i)
           /\ ts <= LastTimestamp(s, i)
           /\ AddVersionCall(s, i, ts, v)) =>
              (Raised' /\ store'[s][i] = store[s][i])]_vars


\* ------------------------------------------------------------------ C35
\* The committed writers of xi whose commit timestamp is <= begin_T.
SnapshotWriters(t, i) ==
    {u \in DOMAIN transactions :
        IsCommitted(u) /\ Wrote(u, i) /\ CommitTs(u) <= BeginTs(t)}

\* The one among them that committed last.
SnapshotWriter(t, i) ==
    CHOOSE u \in SnapshotWriters(t, i) :
        \A w \in SnapshotWriters(t, i) : CommitTs(w) <= CommitTs(u)

\* C35: no stale read across replicas.  Every value T obtains from a store
\* read of xi is the value written by the committed transaction with the
\* greatest commit timestamp <= begin_T among all committed writers of xi
\* (the version read bears that commit timestamp), or the initial value 10*i
\* if there is none, whichever site served the read.
C35_NoStaleRead ==
    StoreReadShown =>
        LET t == output[1].tx
            i == output[1].variable
        IN IF SnapshotWriters(t, i) = {}
           THEN /\ output[1].value = 10 * i
                /\ transactions[t].readSet[i].timestamp = 0
           ELSE /\ output[1].value = BufferedValue(SnapshotWriter(t, i), i)
                /\ transactions[t].readSet[i].timestamp =
                       CommitTs(SnapshotWriter(t, i))

\* T1 wrote x2 while site 1 was Failed (its only target is site 2) and was
\* aborted; T2 committed x2 at site 1 after its recovery; T3 has just read
\* T2's version of x2 from site 1.
C35_Witness ==
    /\ output = <<ReadLine("T3", 2, 101)>>
    /\ IsAborted("T1")
    /\ Len(transactions["T1"].writeSet) = 1
    /\ transactions["T1"].writeSet[1].targetSites = {2}
    /\ IsCommitted("T2")
    /\ transactions["T3"].readSet[2].siteId = 1
    /\ transactions["T3"].readSet[2].timestamp = CommitTs("T2")


\* ------------------------------------------------------------------ C36
\* The committed transactions that wrote xi.
CommittedWriters(i) ==
    {u \in DOMAIN transactions : IsCommitted(u) /\ Wrote(u, i)}

\* The most recently committed write of xi as a version: the initial version
\* if no transaction has committed a write of xi.
NewestCommitted(i) ==
    IF CommittedWriters(i) = {} THEN [timestamp |-> 0, value |-> 10 * i]
    ELSE LET u == CHOOSE w \in CommittedWriters(i) :
                      \A x \in CommittedWriters(i) : CommitTs(x) <= CommitTs(w)
         IN [timestamp |-> CommitTs(u), value |-> BufferedValue(u, i)]

\* C36: replica agreement.  In every state between directives, for every
\* replicated variable xi all sites at which xi is currently readable (canRead
\* true) hold the same latest version of xi, and that version is the most
\* recently committed write of xi.
C36_ReplicaAgreement ==
    \A i \in ReplicatedVars, s \in SiteIds :
        canRead(sites, store, s, i) =>
            store[s][i][Len(store[s][i])] = NewestCommitted(i)

\* x2 is readable at both sites with a committed version installed after the
\* recovery of site 1, while x4 is not readable at site 1.
C36_Witness ==
    /\ canRead(sites, store, 1, 2) /\ canRead(sites, store, 2, 2)
    /\ ~canRead(sites, store, 1, 4)
    /\ sites[1].state = "Recovering"
    /\ CommittedWriters(2) # {}
    /\ \E t \in DOMAIN transactions :
           /\ IsCommitted(t)
           /\ Len(transactions[t].writeSet) = 1
           /\ transactions[t].writeSet[1].targetSites = {2}


\* ------------------------------------------------------------------ C37
\* C37: Active transactions never hold a failed site.  In every state
\* between directives every site in an Active transaction's touched sites is
\* not Failed; consequently no directive prints an abort with reason 'site
\* failure after access'.
C37_ActiveHoldNoFailedSite ==
    /\ \A t \in DOMAIN transactions :
           IsActive(t) =>
               \A s \in transactions[t].touchedSites : sites[s].state # "Failed"
    /\ \A k \in 1..Len(output) :
           output[k].kind = "aborts" =>
               output[k].reason # "site failure after access"

\* T1 is Active and has touched site 2 only, while site 1 is Failed and T2,
\* which had touched it, is Aborted.
C37_Witness ==
    /\ IsActive("T1")
    /\ transactions["T1"].touchedSites = {2}
    /\ sites[1].state = "Failed"
    /\ IsAborted("T2")
    /\ 1 \in transactions["T2"].touchedSites


\* ------------------------------------------------------------------ C38
\* T's buffered write of some variable has an empty target list: its latest
\* write of that variable was issued when no site holding it was available.
HasEmptyTargetWrite(t) ==
    \E k \in 1..Len(transactions[t].writeSet) :
        transactions[t].writeSet[k].targetSites = {}

\* C38: a write with no available holder dooms the transaction.  If T's
\* latest W(T, xi, v) was issued with an empty target list, end(T) aborts T
\* with 'no available site for write', even if a site holding xi has
\* recovered before end(T), and T never commits; and that abort reason occurs
\* only for such an empty target list.
C38_UntargetedWriteDooms ==
    [][\A t \in DOMAIN transactions :
          /\ (/\ IsActive(t)
              /\ HasEmptyTargetWrite(t)
              /\ End(t)) =>
                 /\ IsAborted(t)'
                 /\ output' = <<AbortLine(t, "no available site for write", 0, 0, "")>>
          /\ (IsActive(t) /\ HasEmptyTargetWrite(t)) => ~IsCommitted(t)'
          /\ (\E k \in 1..Len(output') :
                 /\ output'[k].kind = "aborts"
                 /\ output'[k].tx = t
                 /\ output'[k].reason = "no available site for write") =>
                 (IsActive(t) /\ HasEmptyTargetWrite(t))]_vars

\* T1 wrote x1 while its home site 1 was Failed; site 1 has recovered, and
\* end(T1) has just aborted T1 for the write without a target.
C38_Witness ==
    /\ output = <<AbortLine("T1", "no available site for write", 0, 0, "")>>
    /\ IsAborted("T1")
    /\ HasEmptyTargetWrite("T1")
    /\ sites[1].state = "Recovering"


\* ------------------------------------------------------------------ C39
\* The start and end points of the uptime intervals of all sites.
IntervalEndpoints ==
    UNION {{sites[s].uptimeIntervals[k].start : k \in 1..Len(sites[s].uptimeIntervals)}
           \cup {sites[s].uptimeIntervals[k].end :
                    k \in {j \in 1..Len(sites[s].uptimeIntervals) :
                              sites[s].uptimeIntervals[j].hasEnd}} :
           s \in SiteIds}

\* The committed transactions the write history records as having written
\* xi at time ts.
HistoryWriters(i, ts) ==
    {u \in DOMAIN writeHistory :
        /\ IsCommitted(u)
        /\ i \in DOMAIN writeHistory[u]
        /\ writeHistory[u][i] = ts}

VersionTimestampsOf(i) ==
    UNION {{store[s][i][k].timestamp : k \in 1..Len(store[s][i])} :
           s \in {r \in SiteIds : i \in DOMAIN store[r]}}

\* C40: last_writer consistency.  In every reachable state lastWriter[i],
\* when defined, names a Committed transaction whose write set contains i;
\* its recorded commit time is that transaction's commit timestamp, the
\* greatest among all committed transactions that wrote i, and equals the
\* greatest version timestamp of xi present anywhere in the store.
C40_LastWriterConsistency ==
    \A i \in DOMAIN lastWriter :
        LET w == lastWriter[i].transactionId
            c == lastWriter[i].commitTime
        IN /\ IsCommitted(w)
           /\ Wrote(w, i)
           /\ c = CommitTs(w)
           /\ \A u \in DOMAIN transactions :
                  (IsCommitted(u) /\ Wrote(u, i)) => CommitTs(u) <= c
           /\ c \in VersionTimestampsOf(i)
           /\ \A ts \in VersionTimestampsOf(i) : ts <= c

\* T1 and T2 have both committed a write of x2, T2 last and at site 2 only
\* (site 1 was Failed when it wrote); T2 is the last writer.
C40_Witness ==
    /\ IsCommitted("T1") /\ IsCommitted("T2")
    /\ Wrote("T1", 2) /\ Wrote("T2", 2)
    /\ CommitTs("T1") < CommitTs("T2")
    /\ 2 \in DOMAIN lastWriter
    /\ lastWriter[2].transactionId = "T2"
    /\ store[1][2][Len(store[1][2])].timestamp = CommitTs("T1")
    /\ store[2][2][Len(store[2][2])].timestamp = CommitTs("T2")

====
